---------------------------- MODULE Spec2Model ----------------------------
(***************************************************************************)
(* Highlight anchoring and re-resolution of the text highlighter content   *)
(* script (entrypoints/content.ts, held in src/unnamed/part_002) together  *)
(* with the XPath codec of src/utils/xpath.ts.                             *)
(*                                                                         *)
(* The live document is a tree of nodes.  Text is a sequence of one        *)
(* character strings, so that offsets, substring and indexOf are computed  *)
(* as the code computes them.  A node is addressed by its path: the        *)
(* sequence of 1-based child indices from the body element down.           *)
(***************************************************************************)
EXTENDS Integers, Sequences, FiniteSets, TLC

VARIABLES
    doc,        \* the live DOM tree of the open page (root: the body element)
    served,     \* the page as the site served it when it was opened
    refreshes,  \* refreshHighlights messages handled since the page was opened
    stored,     \* chrome.storage.local list of descriptors of the page
    pending,    \* the open save modal: descriptor and cloned range, or NoPending
    inflight,   \* getHighlights requests not yet answered by the background
    loadLog,    \* one record per applyHighlight call of the latest load
    lastFetched,\* the list the latest load iterated over
    lastOp,     \* the latest marker operation outside a load
    capture,    \* per id: what the user selected when the descriptor was made
    wrapInfo,   \* per id: body text just before its marker was inserted, and how
    edits,      \* the edits the site made to the served page, in order
    nextId,     \* index of the next fresh id of IdSeq
    xpathCall,  \* a call of getXPath on a node of any kind, and how it ended
    search,     \* a run of applyHighlightByContext's search for the text
    sync,       \* local store, remote store and the sync service between them
    storage,    \* chrome.storage.local and the handlers reading and writing it
    urlCall,    \* a pair of URLs given to normalizeUrl and the results
    modal,      \* the save modals opened so far, their listeners and callbacks
    shares,     \* users, highlights and share records of the database
    devices,    \* the user's devices, their local stores and the cloud store
    realtime,   \* the realtime channel and the calls that enable or disable it
    flow,       \* markers, storage and messages of one tab, step by step
    selection   \* one run of the save flow on a selection anywhere in the page

\* The content script and its page.
contentVars == << doc, served, refreshes, stored, pending, inflight, loadLog,
                  lastFetched, lastOp, capture, wrapInfo, edits, nextId >>

\* The components checked on their own.
extraVars == << devices, realtime, flow, selection >>

auxVars == << xpathCall, search, sync, storage, urlCall, modal, shares, extraVars >>

vars == << contentVars, auxVars >>

\* Value of a variable of a component that takes no part in a behaviour.
Idle == [kind |-> "idle"]

ExtraIdle ==
    devices = Idle /\ realtime = Idle /\ flow = Idle /\ selection = Idle

-----------------------------------------------------------------------------
(* Bounds *)

\* Highlight ids the model draws from, in the order crypto.randomUUID hands
\* them out (fresh, never repeated).
IdSeq == << "h1", "h2" >>

\* refreshHighlights messages handled during one visit of the page.
MaxRefresh == 1

\* Edits the site makes to the page between visits.
MaxEdits == 1

\* Entries of allMatches the model keeps; pushes beyond are only counted.
MaxMatches == 5

\* Length of the container texts the search is run on.
MaxSearchText == 3

\* Versions of highlights written during a behaviour of the sync service.
MaxWrites == 3

\* Query parameters of a URL given to normalizeUrl.
MaxQuery == 2

\* Invocations of showHighlightModal in a behaviour.
MaxModals == 3

\* Program constants: context window sizes.
CONTEXT_LEN == 50
PARTIAL_LEN == 20

-----------------------------------------------------------------------------
(* Sequences of characters: the string primitives the code uses *)

Min(a, b) == IF a < b THEN a ELSE b
Max(a, b) == IF a > b THEN a ELSE b
Abs(a) == IF a < 0 THEN -a ELSE a

\* F(v) with v computed once, before F is entered.
WithValue(v, F(_)) == CHOOSE y \in { F(x) : x \in { v } } : TRUE

\* String.prototype.substring(from, to) with 0-based, clamped arguments.
Substring(s, from, to) ==
    LET f == Max(0, Min(from, Len(s)))
        t == Max(0, Min(to, Len(s)))
    IN  SubSeq(s, Min(f, t) + 1, Max(f, t))

\* String.prototype.slice(-n)
SliceLast(s, n) == SubSeq(s, Max(1, Len(s) - n + 1), Len(s))

\* String.prototype.slice(0, n)
SliceFirst(s, n) == SubSeq(s, 1, Min(n, Len(s)))

\* String.prototype.indexOf(needle, from): 0-based index or -1.
\* The search starts at from clamped to [0, length], so that an empty needle
\* is found at every from, past the end at the length.
IndexOfFrom(s, needle, from) ==
    LET start == Max(0, Min(from, Len(s)))
        hits == { i \in start .. (Len(s) - Len(needle)) :
                    SubSeq(s, i + 1, i + Len(needle)) = needle }
    IN  IF hits = {} THEN -1
        ELSE CHOOSE i \in hits : \A j \in hits : i <= j

IndexOf(s, needle) == IndexOfFrom(s, needle, 0)

IsSpace(c) == c = " "

\* String.prototype.trim()
RECURSIVE TrimLeft(_)
TrimLeft(s) ==
    IF s # << >> /\ IsSpace(Head(s)) THEN TrimLeft(Tail(s)) ELSE s

RECURSIVE TrimRight(_)
TrimRight(s) ==
    IF s # << >> /\ IsSpace(s[Len(s)]) THEN TrimRight(SubSeq(s, 1, Len(s) - 1))
    ELSE s

Trim(s) == TrimRight(TrimLeft(s))

RECURSIVE Flatten(_)
Flatten(ss) == IF ss = << >> THEN << >> ELSE Head(ss) \o Flatten(Tail(ss))

-----------------------------------------------------------------------------
(* DOM nodes *)

\* A text node.
TextNode(d) == [t |-> "T", tag |-> "#text", id |-> "", hl |-> "", d |-> d,
                ch |-> << >>]

\* An element: tag name, id attribute ("" when absent), data-highlight-id
\* ("" unless the element is a marker) and children.
Elem(tag, id, ch) == [t |-> "E", tag |-> tag, id |-> id, hl |-> "",
                      d |-> << >>, ch |-> ch]

\* document.createElement('mark') with className and dataset.highlightId set.
MarkElem(hid, ch) == [t |-> "E", tag |-> "mark", id |-> "", hl |-> hid,
                      d |-> << >>, ch |-> ch]

IsText(n) == n.t = "T"

\* Node.textContent: the concatenation of descendant text in document order.
RECURSIVE TextContent(_)
TextContent(n) ==
    IF IsText(n) THEN n.d
    ELSE Flatten([i \in 1 .. Len(n.ch) |-> TextContent(n.ch[i])])

\* The node at a path below n.
RECURSIVE Get(_, _)
Get(n, p) == IF p = << >> THEN n ELSE Get(n.ch[Head(p)], Tail(p))

\* n with the node at path p replaced by the sequence of nodes ms.
RECURSIVE Splice(_, _, _)
Splice(n, p, ms) ==
    IF Len(p) = 1
    THEN [n EXCEPT !.ch = SubSeq(n.ch, 1, p[1] - 1) \o ms
                          \o SubSeq(n.ch, p[1] + 1, Len(n.ch))]
    ELSE [n EXCEPT !.ch[Head(p)] = Splice(n.ch[Head(p)], Tail(p), ms)]

\* n with the node at path p replaced by m (p may be the root).
Put(n, p, m) == IF p = << >> THEN m ELSE Splice(n, p, << m >>)

Parent(p) == SubSeq(p, 1, Len(p) - 1)

IsPrefix(p, q) == Len(p) <= Len(q) /\ SubSeq(q, 1, Len(p)) = p

\* Paths of all nodes below n (n included), in document order.
RECURSIVE Paths(_, _)
Paths(n, at) ==
    << at >> \o
    (IF IsText(n) THEN << >>
     ELSE Flatten([i \in 1 .. Len(n.ch) |-> Paths(n.ch[i], Append(at, i))]))

ElementPaths(root) ==
    LET IsE(p) == ~IsText(Get(root, p)) IN SelectSeq(Paths(root, << >>), IsE)

\* TreeWalker(container, SHOW_TEXT): the text nodes below the container, in
\* document order, as paths from the root.
TextPathsUnder(root, cp) ==
    LET IsT(p) == IsText(Get(root, p)) /\ p # cp
    IN  SelectSeq(Paths(Get(root, cp), cp), IsT)

AllTextPaths(root) ==
    LET IsT(p) == IsText(Get(root, p)) IN SelectSeq(Paths(root, << >>), IsT)

-----------------------------------------------------------------------------
(* XPath codec: getXPath / getElementByXPath *)

\* The value getElementByXPath returns when nothing matches (null).
NullPath == << 0 >>

\* The XPath of the empty string, which getXPath returns for a non-element.
EmptyXPath == [kind |-> "empty", id |-> "", steps |-> << >>]

\* 1 + the number of preceding siblings that are elements of the same tag.
SameTagIndex(root, p) ==
    LET sibs == Get(root, Parent(p)).ch
        k    == p[Len(p)]
    IN  1 + Cardinality({ i \in 1 .. (k - 1) :
                            ~IsText(sibs[i]) /\ sibs[i].tag = Get(root, p).tag })

\* The steps tag[index] from the html element down to the element at p.  The
\* html element is the only child of the document and body its only body.
PathSteps(root, p) ==
    << << "html", 1 >>, << "body", 1 >> >> \o
    [ k \in 1 .. Len(p) |->
        << Get(root, SubSeq(p, 1, k)).tag, SameTagIndex(root, SubSeq(p, 1, k)) >> ]

getXPath(root, node) ==
    LET p  == IF IsText(Get(root, node)) THEN Parent(node) ELSE node
        el == Get(root, p)
    IN  IF el.id # ""
        THEN [kind |-> "id", id |-> el.id, steps |-> << >>]
        ELSE [kind |-> "path", id |-> "", steps |-> PathSteps(root, p)]

\* The child of the element at p selected by the step tag[index], or NullPath.
StepChild(root, p, step) ==
    LET ch   == Get(root, p).ch
        hits == { i \in 1 .. Len(ch) :
                    /\ ~IsText(ch[i]) /\ ch[i].tag = step[1]
                    /\ SameTagIndex(root, Append(p, i)) = step[2] }
    IN  IF hits = {} THEN NullPath
        ELSE Append(p, CHOOSE i \in hits : TRUE)

RECURSIVE WalkSteps(_, _, _)
WalkSteps(root, p, steps) ==
    IF steps = << >> THEN p
    ELSE LET c == StepChild(root, p, Head(steps))
         IN  IF c = NullPath THEN NullPath
             ELSE WalkSteps(root, c, Tail(steps))

\* document.evaluate(xpath, document, null, FIRST_ORDERED_NODE_TYPE, null)
\* inside try/catch: the first match in document order, or null.
getElementByXPath(root, xp) ==
    IF xp.kind = "id"
    THEN LET HasId(p) == Get(root, p).id = xp.id
             hits     == SelectSeq(ElementPaths(root), HasId)
         IN  IF hits = << >> THEN NullPath ELSE Head(hits)
    ELSE IF xp.kind = "path"
    THEN IF /\ Len(xp.steps) >= 2
            /\ xp.steps[1] = << "html", 1 >>
            /\ xp.steps[2] = << "body", 1 >>
         THEN WalkSteps(root, << >>, SubSeq(xp.steps, 3, Len(xp.steps)))
         ELSE NullPath
    ELSE NullPath

-----------------------------------------------------------------------------
(* Ranges with boundary points in text nodes *)

\* A range: start (text node sn, offset so) and end (text node en, offset eo).
MkRange(sn, so, en, eo) == [sn |-> sn, so |-> so, en |-> en, eo |-> eo]

PosIn(seq, x) == CHOOSE i \in 1 .. Len(seq) : seq[i] = x

\* Range.toString()
RangeText(root, r) ==
    IF r.sn = r.en THEN Substring(Get(root, r.sn).d, r.so, r.eo)
    ELSE LET tps == AllTextPaths(root)
             i   == PosIn(tps, r.sn)
             j   == PosIn(tps, r.en)
         IN  Substring(Get(root, r.sn).d, r.so, Len(Get(root, r.sn).d))
             \o Flatten([k \in 1 .. (j - i - 1) |-> Get(root, tps[i + k]).d])
             \o Substring(Get(root, r.en).d, 0, r.eo)

\* Every range a user can select whose boundary points lie in text nodes and
\* whose start precedes its end (selection.isCollapsed is false).
Ranges(root) ==
    LET tps == AllTextPaths(root)
        len == [i \in 1 .. Len(tps) |-> Len(Get(root, tps[i]).d)]
    IN  UNION { UNION { { MkRange(tps[i], so, tps[j], eo) :
                            << so, eo >> \in
                              { q \in (0 .. len[i]) \X (0 .. len[j]) :
                                  i < j \/ q[1] < q[2] } } :
                        j \in i .. Len(tps) } :
                i \in 1 .. Len(tps) }

RECURSIVE CommonPrefix(_, _)
CommonPrefix(p, q) ==
    IF p # << >> /\ q # << >> /\ Head(p) = Head(q)
    THEN << Head(p) >> \o CommonPrefix(Tail(p), Tail(q))
    ELSE << >>

\* Range.commonAncestorContainer
CommonAncestor(r) == IF r.sn = r.en THEN r.sn ELSE CommonPrefix(r.sn, r.en)

\* Number of characters of the container (a text node or an element) that
\* precede the boundary point (node, off): preRange.toString().length.
CharsBefore(root, container, node, off) ==
    IF container = node THEN off
    ELSE LET tps == TextPathsUnder(root, container)
             i   == PosIn(tps, node)
         IN  Len(Flatten([k \in 1 .. (i - 1) |-> Get(root, tps[k]).d])) + off

-----------------------------------------------------------------------------
(* createHighlightFromSelection *)

NoDesc == [id |-> "", text |-> << >>, xpath |-> EmptyXPath, startOffset |-> 0,
           endOffset |-> 0, beforeContext |-> << >>, afterContext |-> << >>]

createHighlightFromSelection(root, r, id) ==
    LET text == Trim(RangeText(root, r))
        container     == CommonAncestor(r)
        containerText == TextContent(Get(root, container))
        textStart     == IndexOf(containerText, text)
        startOffset   == CharsBefore(root, container, r.sn, r.so)
    IN  IF text = << >> THEN NoDesc
        ELSE [ id            |-> id,
               text          |-> text,
               xpath         |-> getXPath(root, container),
               startOffset   |-> startOffset,
               endOffset     |-> startOffset + Len(text),
               beforeContext |-> Substring(containerText,
                                           Max(0, textStart - CONTEXT_LEN),
                                           textStart),
               afterContext  |-> Substring(containerText,
                                           textStart + Len(text),
                                           textStart + Len(text) + CONTEXT_LEN) ]

-----------------------------------------------------------------------------
(* Marker insertion: wrapRangeWithHighlight *)

\* Range.extractContents on the part of node n from the boundary point
\* (text node at relative path rel, offset off) to the end of n: what stays
\* in the tree and the clone that goes to the fragment.
RECURSIVE ExtractTail(_, _, _)
ExtractTail(n, rel, off) ==
    IF rel = << >>
    THEN [kept |-> TextNode(Substring(n.d, 0, off)),
          frag |-> TextNode(Substring(n.d, off, Len(n.d)))]
    ELSE LET c   == Head(rel)
             sub == ExtractTail(n.ch[c], Tail(rel), off)
         IN  [kept |-> [n EXCEPT !.ch = SubSeq(n.ch, 1, c - 1) \o << sub.kept >>],
              frag |-> [n EXCEPT !.ch = << sub.frag >>
                                        \o SubSeq(n.ch, c + 1, Len(n.ch))]]

\* The same for the part of n from its start to the boundary point.
RECURSIVE ExtractHead(_, _, _)
ExtractHead(n, rel, off) ==
    IF rel = << >>
    THEN [kept |-> TextNode(Substring(n.d, off, Len(n.d))),
          frag |-> TextNode(Substring(n.d, 0, off))]
    ELSE LET c   == Head(rel)
             sub == ExtractHead(n.ch[c], Tail(rel), off)
         IN  [kept |-> [n EXCEPT !.ch = << sub.kept >>
                                        \o SubSeq(n.ch, c + 1, Len(n.ch))],
              frag |-> [n EXCEPT !.ch = SubSeq(n.ch, 1, c - 1) \o << sub.frag >>]]

\* range.surroundContents(mark) throws InvalidStateError exactly when the
\* range partially contains a node that is not a text node.
PartiallyContainsElement(r) == Parent(r.sn) # Parent(r.en)

\* The tree after the range's contents were extracted into a new mark
\* element and the mark was inserted at the (collapsed) range.  Both
\* surroundContents and extractContents + insertNode end in this tree.
ExtractAndInsert(root, r, hid) ==
    IF r.sn = r.en
    THEN LET d == Get(root, r.sn).d
         IN  Splice(root, r.sn,
                    << TextNode(Substring(d, 0, r.so)),
                       MarkElem(hid, << TextNode(Substring(d, r.so, r.eo)) >>),
                       TextNode(Substring(d, r.eo, Len(d))) >>)
    ELSE LET cp   == CommonPrefix(r.sn, r.en)
             ca   == Get(root, cp)
             i    == r.sn[Len(cp) + 1]
             j    == r.en[Len(cp) + 1]
             tl   == ExtractTail(ca.ch[i], SubSeq(r.sn, Len(cp) + 2, Len(r.sn)), r.so)
             hd   == ExtractHead(ca.ch[j], SubSeq(r.en, Len(cp) + 2, Len(r.en)), r.eo)
             mark == MarkElem(hid, << tl.frag >> \o SubSeq(ca.ch, i + 1, j - 1)
                                   \o << hd.frag >>)
         IN  Put(root, cp,
                 [ca EXCEPT !.ch = SubSeq(ca.ch, 1, i - 1)
                                   \o << tl.kept, mark, hd.kept >>
                                   \o SubSeq(ca.ch, j + 1, Len(ca.ch))])

\* A wrap whose second attempt gives up after extractContents took the
\* content out: the tree keeps what was left and the function returns false.
WrapLosingContent(root, r, hid) ==
    [doc  |-> IF PartiallyContainsElement(r)
              THEN Put(root, CommonPrefix(r.sn, r.en),
                       [Get(root, CommonPrefix(r.sn, r.en)) EXCEPT !.ch = << >>])
              ELSE ExtractAndInsert(root, r, hid),
     ok   |-> ~PartiallyContainsElement(r),
     mode |-> IF PartiallyContainsElement(r) THEN "" ELSE "inplace"]

\* wrapRangeWithHighlight: surroundContents, and extractContents plus
\* insertNode when that throws.  Returns the new tree, the result and which
\* of the two branches inserted the marker.
wrapRangeWithHighlight(root, r, hid) ==
    [doc  |-> ExtractAndInsert(root, r, hid),
     ok   |-> TRUE,
     mode |-> IF PartiallyContainsElement(r) THEN "fallback" ELSE "inplace"]

-----------------------------------------------------------------------------
(* Marker lookup and removal *)

\* Paths of the elements carrying data-highlight-id = hid, document order.
MarkPaths(root, hid) ==
    LET IsM(p) == Get(root, p).hl = hid IN SelectSeq(ElementPaths(root), IsM)

\* document.querySelector('[data-highlight-id="hid"]') is not null.
HasMark(root, hid) == MarkPaths(root, hid) # << >>

\* Node.normalize(): in every descendant, each maximal run of adjacent text
\* nodes becomes one text node holding their data, and none when the data
\* is empty.
RECURSIVE NormalizeNode(_)
NormalizeNode(n) ==
    IF IsText(n) THEN n
    ELSE LET ch == n.ch
             RunStart(i) == IsText(ch[i]) /\ (i = 1 \/ ~IsText(ch[i - 1]))
             RunEnd(i) == CHOOSE j \in i .. Len(ch) :
                            /\ \A k \in i .. j : IsText(ch[k])
                            /\ j = Len(ch) \/ ~IsText(ch[j + 1])
             RunData(i) == Flatten([k \in 1 .. (RunEnd(i) - i + 1) |-> ch[i + k - 1].d])
             Item(i) == IF ~IsText(ch[i]) THEN << NormalizeNode(ch[i]) >>
                        ELSE IF RunStart(i) /\ RunData(i) # << >>
                        THEN << TextNode(RunData(i)) >>
                        ELSE << >>
         IN  [n EXCEPT !.ch = Flatten([i \in 1 .. Len(ch) |-> Item(i)])]

\* A removal that takes the mark away together with what it holds.
UnwrapDropping(root, m) ==
    LET Normalized(unwrapped) ==
            Put(unwrapped, Parent(m), NormalizeNode(Get(unwrapped, Parent(m))))
    IN  WithValue(Splice(root, m, << >>), Normalized)

\* The children of the mark are moved in front of it, the mark is removed
\* and its parent is normalized.
UnwrapMark(root, m) ==
    LET Normalized(unwrapped) ==
            Put(unwrapped, Parent(m), NormalizeNode(Get(unwrapped, Parent(m))))
    IN  WithValue(Splice(root, m, Get(root, m).ch), Normalized)

\* The DOM part of removeHighlightById.
removeHighlightById(root, hid) ==
    IF HasMark(root, hid) THEN UnwrapMark(root, Head(MarkPaths(root, hid)))
    ELSE root

-----------------------------------------------------------------------------
(* applyHighlight and applyHighlightByContext *)

NoRange == [sn |-> NullPath, so |-> 0, en |-> NullPath, eo |-> 0]

\* The TreeWalker loop that both functions run over the text nodes tps of
\* the container, for the flattened offsets from and to.  cur[k] is
\* currentOffset when the loop reaches node k.  The loop breaks at the first
\* node with cur + nodeLength >= to (endNode); startNode is the first node up
\* to there with cur + nodeLength > from.  The parts of NoRange stand for
\* what the loop leaves null.
LocateNodes(root, tps, from, to) ==
    LET len == [k \in 1 .. Len(tps) |-> Len(Get(root, tps[k]).d)]
        cur == [k \in 1 .. Len(tps) |->
                  Len(Flatten([i \in 1 .. (k - 1) |-> Get(root, tps[i]).d]))]
        ends   == { k \in 1 .. Len(tps) : cur[k] + len[k] >= to }
        e      == IF ends = {} THEN Len(tps)
                  ELSE CHOOSE k \in ends : \A j \in ends : k <= j
        starts == { k \in 1 .. e : cur[k] + len[k] > from }
        b      == CHOOSE k \in starts : \A j \in starts : k <= j
    IN  [sn |-> IF starts = {} THEN NullPath ELSE tps[b],
         so |-> IF starts = {} THEN 0 ELSE from - cur[b],
         en |-> IF ends = {} THEN NullPath ELSE tps[e],
         eo |-> IF ends = {} THEN 0 ELSE to - cur[e]]

\* range.setStart / range.setEnd throw IndexSizeError for an offset outside
\* the node.
BoundaryThrows(root, r) ==
    \/ r.so < 0 \/ r.so > Len(Get(root, r.sn).d)
    \/ r.eo < 0 \/ r.eo > Len(Get(root, r.en).d)

\* All start indices of text in s (the indexOf loop with searchStart =
\* foundIndex + 1), ascending, for a text that is not empty.
AllMatches(s, text) ==
    LET Occurs(i) == SubSeq(s, i + 1, i + Len(text)) = text
    IN  SelectSeq([i \in 1 .. Max(0, Len(s) - Len(text) + 1) |-> i - 1], Occurs)

\* A reduce that lets the later of two equally distant matches win.
RECURSIVE ClosestOrLater(_, _, _)
ClosestOrLater(prev, rest, o) ==
    IF rest = << >> THEN prev
    ELSE ClosestOrLater(IF Abs(Head(rest) - o) <= Abs(prev - o)
                        THEN Head(rest) ELSE prev, Tail(rest), o)

\* allMatches.reduce((prev, curr) => |curr - o| < |prev - o| ? curr : prev)
RECURSIVE ClosestMatch(_, _, _)
ClosestMatch(prev, rest, o) ==
    IF rest = << >> THEN prev
    ELSE LET Go(best) == ClosestMatch(best, Tail(rest), o)
         IN  WithValue(IF Abs(Head(rest) - o) < Abs(prev - o)
                       THEN Head(rest) ELSE prev, Go)

\* A context search that takes the index of the pattern for the start of the
\* text, without adding the length of the context before it.
ContextMatchAtPattern(containerText, position) ==
    LET searchPattern == position.beforeContext \o position.text
                         \o position.afterContext
        contextIndex  == IndexOf(containerText, searchPattern)
        partialPattern == SliceLast(position.beforeContext, PARTIAL_LEN)
                          \o position.text
                          \o SliceFirst(position.afterContext, PARTIAL_LEN)
        partialIndex  == IndexOf(containerText, partialPattern)
        allMatches    == AllMatches(containerText, position.text)
    IN  IF contextIndex >= 0
        THEN [tier |-> "full", textStart |-> contextIndex]
        ELSE IF partialIndex >= 0
        THEN [tier |-> "partial", textStart |-> partialIndex]
        ELSE IF allMatches = << >>
        THEN [tier |-> "none", textStart |-> 0]
        ELSE [tier |-> "closest",
              textStart |-> ClosestMatch(Head(allMatches), Tail(allMatches),
                                         position.startOffset)]

\* The start offset applyHighlightByContext settles on and the step that
\* gave it; tier "none" when the text does not occur in the container.
ContextMatch(containerText, position) ==
    LET searchPattern == position.beforeContext \o position.text
                         \o position.afterContext
        contextIndex  == IndexOf(containerText, searchPattern)
        before20      == SliceLast(position.beforeContext, PARTIAL_LEN)
        partialPattern == before20 \o position.text
                          \o SliceFirst(position.afterContext, PARTIAL_LEN)
        partialIndex  == IndexOf(containerText, partialPattern)
        allMatches    == AllMatches(containerText, position.text)
    IN  IF contextIndex >= 0
        THEN [tier |-> "full", textStart |-> contextIndex + Len(position.beforeContext)]
        ELSE IF partialIndex >= 0
        THEN [tier |-> "partial", textStart |-> partialIndex + Len(before20)]
        ELSE IF allMatches = << >>
        THEN [tier |-> "none", textStart |-> 0]
        ELSE [tier |-> "closest",
              textStart |-> ClosestMatch(Head(allMatches), Tail(allMatches),
                                         position.startOffset)]

\* The result of one applyHighlight call: the tree after it, the boolean it
\* returns, the step that decided it, the element searched (NullPath when
\* none) and the branch of wrapRangeWithHighlight that ran ("" when none).
Outcome(root, ok, tier, container, mode) ==
    [doc |-> root, ok |-> ok, tier |-> tier, container |-> container,
     mode |-> mode]

applyHighlightByContext(root, container, position) ==
    LET NotWrapped == [doc |-> root, ok |-> FALSE, mode |-> ""]
        Wrap(r) ==
            IF r.sn = NullPath \/ r.en = NullPath THEN NotWrapped
            ELSE IF BoundaryThrows(root, r) THEN NotWrapped
            ELSE wrapRangeWithHighlight(root, r, position.id)
        Found(m) ==
            IF m.tier = "none" THEN Outcome(root, FALSE, "none", container, "")
            ELSE LET Done(w) ==
                         Outcome(w.doc, w.ok, m.tier, container, w.mode)
                 IN  WithValue(WithValue(LocateNodes(root,
                                             TextPathsUnder(root, container),
                                             m.textStart,
                                             m.textStart + Len(position.text)),
                                         Wrap),
                               Done)
    IN  WithValue(ContextMatch(TextContent(Get(root, container)), position), Found)

\* An applyHighlight that never finds an earlier marker.
NeverApplied(root, position) == FALSE

\* The check applyHighlight starts with: a marker of the id is in the document.
AlreadyApplied(root, position) == HasMark(root, position.id)

applyHighlight(root, position) ==
    LET Direct(container) ==
            LET Checked(r) ==
                    IF r.sn = NullPath \/ r.en = NullPath
                    THEN applyHighlightByContext(root, container, position)
                    ELSE IF BoundaryThrows(root, r)
                    THEN applyHighlightByContext(root, container, position)
                    ELSE IF RangeText(root, r) # position.text
                    THEN applyHighlightByContext(root, container, position)
                    ELSE LET Done(w) ==
                                 Outcome(w.doc, w.ok, "direct", container, w.mode)
                         IN  WithValue(wrapRangeWithHighlight(root, r, position.id),
                                       Done)
            IN  IF container = NullPath
                THEN applyHighlightByContext(root, << >>, position)
                ELSE WithValue(LocateNodes(root, TextPathsUnder(root, container),
                                           position.startOffset,
                                           position.endOffset),
                               Checked)
    IN  IF AlreadyApplied(root, position)
        THEN Outcome(root, TRUE, "existing", NullPath, "")
        ELSE WithValue(getElementByXPath(root, position.xpath), Direct)

\* Offsets of the flattened body text that lie inside a marker of hid.
MarkSpan(root, hid) ==
    LET tps == AllTextPaths(root)
        Inside(tp) == \E k \in 0 .. (Len(tp) - 1) :
                         Get(root, SubSeq(tp, 1, k)).hl = hid
    IN  UNION { { CharsBefore(root, << >>, tps[i], 0) + c :
                    c \in 0 .. (Len(Get(root, tps[i]).d) - 1) } :
                i \in { i \in 1 .. Len(tps) : Inside(tps[i]) } }

\* Flattened text of the first marker of hid (what querySelector finds).
MarkText(root, hid) ==
    IF HasMark(root, hid) THEN TextContent(Get(root, Head(MarkPaths(root, hid))))
    ELSE << >>

\* The loop of loadAndApplyHighlights over the fetched list: one record per
\* applyHighlight call, in order, each call on the tree the calls before it
\* left.  A record keeps what the call returned, the step that decided it,
\* whether the tree changed, and the marked text and offsets after the call.
RECURSIVE ApplyAll(_, _, _)
ApplyAll(root, highlights, log) ==
    IF highlights = << >> THEN [doc |-> root, log |-> log]
    ELSE LET h == Head(highlights)
             Rest(o) ==
                 ApplyAll(o.doc, Tail(highlights),
                          Append(log, [id |-> h.id, ok |-> o.ok, tier |-> o.tier,
                                       mode |-> o.mode,
                                       before |-> root,
                                       changed |-> o.doc # root,
                                       markText |-> MarkText(o.doc, h.id),
                                       span |-> MarkSpan(o.doc, h.id)]))
         IN  WithValue(applyHighlight(root, h), Rest)

\* A loop that gives up at the first descriptor that cannot be applied.
LoadUntilFailure(root, highlights) ==
    LET all  == ApplyAll(root, highlights, << >>)
        Bad  == { i \in 1 .. Len(all.log) : ~all.log[i].ok }
        last == IF Bad = {} THEN Len(all.log)
                ELSE CHOOSE i \in Bad : \A j \in Bad : i <= j
    IN  [doc |-> IF last = Len(all.log) THEN all.doc ELSE all.log[last + 1].before,
         log |-> SubSeq(all.log, 1, last)]

\* loadAndApplyHighlights after the response arrived.
loadAndApplyHighlights(root, highlights) == ApplyAll(root, highlights, << >>)

\* clearAllHighlights: every marker, in document order, is unwrapped and its
\* parent normalized.
RECURSIVE clearAllHighlights(_)
clearAllHighlights(root) ==
    LET IsM(p) == Get(root, p).hl # ""
        marks  == SelectSeq(ElementPaths(root), IsM)
        Go(next) == clearAllHighlights(next)
    IN  IF marks = << >> THEN root
        ELSE WithValue(UnwrapMark(root, Head(marks)), Go)

-----------------------------------------------------------------------------
(* Pages *)

P(ch) == Elem("p", "", ch)

\* <p>a a</p>: the same text twice, separated by white space.
DocRepeat == Elem("body", "", << P(<< TextNode(<< "a", " ", "a" >>) >>) >>)

\* <p><b>a</b> a</p>: a text node preceded by sibling text.
DocInline ==
    Elem("body", "",
         << P(<< Elem("b", "", << TextNode(<< "a" >>) >>),
                 TextNode(<< " ", "a" >>) >>) >>)

\* <div id="x">ab</div><div id="x">b</div>: an id used twice.
DocSameId ==
    Elem("body", "",
         << Elem("div", "x", << TextNode(<< "a", "b" >>) >>),
            Elem("div", "x", << TextNode(<< "b" >>) >>) >>)

InitialDocs == { DocRepeat, DocInline, DocSameId }

\* <p>Hello world, hello world.</p>
ScenarioText ==
    << "H", "e", "l", "l", "o", " ", "w", "o", "r", "l", "d", ",", " ",
       "h", "e", "l", "l", "o", " ", "w", "o", "r", "l", "d", "." >>

DocScenario == Elem("body", "", << P(<< TextNode(ScenarioText) >>) >>)

\* The site inserts, as first child of body, a new element with unrelated
\* text and the tag of the element that was first until now.
InsertSibling(root) ==
    [root EXCEPT !.ch = << Elem(root.ch[1].tag, "", << TextNode(<< "z" >>) >>) >>
                        \o root.ch]

\* The site prepends characters to the first text node of the page.
PrependText(root, chars) ==
    LET tp == Head(AllTextPaths(root))
    IN  Put(root, tp, TextNode(chars \o Get(root, tp).d))

EditPrefix == << "H", "i", "!", " " >>

\* The site replaces the first character of the first text node of the page
\* and prepends characters to it.
PrependAndReplaceFirst(root, chars, char) ==
    LET tp == Head(AllTextPaths(root))
    IN  Put(root, tp, TextNode(chars \o << char >> \o Tail(Get(root, tp).d)))

\* How the tree a descriptor is applied to relates to the tree it was made
\* on: the same, that tree after one of the site's edits, or neither.
Relation(captured, now) ==
    IF captured = << >> THEN "other"
    ELSE IF now = captured THEN "same"
    ELSE IF now = InsertSibling(captured) THEN "inserted"
    ELSE IF now = PrependText(captured, EditPrefix) THEN "prepended"
    ELSE "other"

-----------------------------------------------------------------------------
(* State *)

Ids == { IdSeq[i] : i \in 1 .. Len(IdSeq) }

NoPending == [desc |-> NoDesc, range |-> NoRange]

\* lastOp of a step that is no marker operation.
NoOp == [op |-> "none", id |-> "", mode |-> "", textBefore |-> << >>,
         textAfter |-> << >>, ctxBefore |-> << >>, ctxAfter |-> << >>]

\* What the user selected when a descriptor was made: the position of the
\* trimmed selected text in the flattened text of body, the tree at that
\* moment, the container element, the number of site edits the document held
\* and the descriptor.
NoCapture == [absStart |-> -1, doc |-> << >>, container |-> NullPath,
              edits |-> 0, desc |-> NoDesc]

NoWrap == [text |-> << >>, mode |-> ""]

InitContent(d, firstId) ==
    /\ doc = d
    /\ served = d
    /\ refreshes = 0
    /\ stored = << >>
    /\ pending = NoPending
    /\ inflight = 1
    /\ loadLog = << >>
    /\ lastFetched = << >>
    /\ lastOp = NoOp
    /\ capture = [i \in Ids |-> NoCapture]
    /\ wrapInfo = [i \in Ids |-> NoWrap]
    /\ edits = << >>
    /\ nextId = firstId

\* The content script takes no part: an empty page, nothing stored.
ContentIdle == InitContent(Elem("body", "", << >>), 1)

InitWith(d, firstId) ==
    /\ InitContent(d, firstId)
    /\ xpathCall = Idle /\ search = Idle /\ sync = Idle /\ storage = Idle
    /\ urlCall = Idle /\ modal = Idle /\ shares = Idle
    /\ ExtraIdle

Init == \E d \in InitialDocs : InitWith(d, 1)

\* The scenario page, with one id left to hand out.
InitScenario == InitWith(DocScenario, Len(IdSeq))

-----------------------------------------------------------------------------
(* Actions.  loadLog, lastFetched and lastOp describe the step just taken    *)
(* and are reset by every other step.                                      *)

\* handleSaveHighlight up to the modal: the selection is turned into a
\* descriptor and the range is cloned.
HandleSaveHighlight(r) ==
    LET id   == IdSeq[nextId]
        desc == createHighlightFromSelection(doc, r, id)
        raw  == RangeText(doc, r)
        ca   == CommonAncestor(r)
    IN  /\ UNCHANGED auxVars
        /\ pending = NoPending
        /\ nextId <= Len(IdSeq)
        /\ desc # NoDesc
        /\ pending' = [desc |-> desc, range |-> r]
        /\ nextId' = nextId + 1
        /\ capture' = [capture EXCEPT ![id] =
              [absStart  |-> CharsBefore(doc, << >>, r.sn, r.so)
                             + (Len(raw) - Len(TrimLeft(raw))),
               doc       |-> doc,
               container |-> IF IsText(Get(doc, ca)) THEN Parent(ca) ELSE ca,
               edits     |-> Len(edits),
               desc      |-> desc]]
        /\ loadLog' = << >> /\ lastFetched' = << >> /\ lastOp' = NoOp
        /\ UNCHANGED << doc, served, refreshes, stored, inflight, wrapInfo,
                        edits >>

\* The user presses Save: highlightSelection wraps the cloned range and, when
\* that succeeds, the descriptor goes to storage (saveHighlightData).
ModalSave ==
    /\ UNCHANGED auxVars
    /\ pending # NoPending
    /\ \E w \in { wrapRangeWithHighlight(doc, pending.range, pending.desc.id) } :
        LET id == pending.desc.id
            ca == capture[id].container
        IN
        /\ doc' = w.doc
        /\ stored' = IF w.ok THEN Append(stored, pending.desc) ELSE stored
        /\ lastOp' = [op |-> "highlight", id |-> id, mode |-> w.mode,
                      textBefore |-> TextContent(doc),
                      textAfter  |-> TextContent(w.doc),
                      ctxBefore  |-> TextContent(Get(doc, ca)),
                      ctxAfter   |-> TextContent(Get(w.doc, ca))]
        /\ wrapInfo' = [wrapInfo EXCEPT ![id] =
                          [text |-> TextContent(doc), mode |-> w.mode]]
        /\ pending' = NoPending
        /\ loadLog' = << >> /\ lastFetched' = << >>
        /\ UNCHANGED << served, refreshes, inflight, capture, edits, nextId >>

\* The user presses Cancel (or Escape, or clicks the overlay): the descriptor
\* is dropped, and the model hands its id out again.
ModalCancel ==
    /\ UNCHANGED auxVars
    /\ pending # NoPending
    /\ pending' = NoPending
    /\ capture' = [capture EXCEPT ![pending.desc.id] = NoCapture]
    /\ nextId' = nextId - 1
    /\ loadLog' = << >> /\ lastFetched' = << >> /\ lastOp' = NoOp
    /\ UNCHANGED << doc, served, refreshes, stored, inflight, wrapInfo, edits >>

\* A click can have a marker of hid as its target: one of them holds text of
\* its own, not only other elements.
Clickable(root, hid) ==
    \E i \in 1 .. Len(MarkPaths(root, hid)) :
        LET ch == Get(root, MarkPaths(root, hid)[i]).ch
        IN  \E k \in 1 .. Len(ch) : IsText(ch[k]) /\ ch[k].d # << >>

\* Alt+click on a marker: removeHighlightById unwraps the first marker with
\* the id and has the descriptor removed from storage (removeHighlightData).
AltClickRemove(id) ==
    /\ UNCHANGED auxVars
    /\ pending = NoPending
    /\ Clickable(doc, id)
    /\ \E after \in { removeHighlightById(doc, id) } :
        LET IsNot(h) == h.id # id
            parent   == Parent(Head(MarkPaths(doc, id)))
        IN
        /\ doc' = after
        /\ stored' = SelectSeq(stored, IsNot)
        /\ lastOp' = [op |-> "remove", id |-> id, mode |-> wrapInfo[id].mode,
                      textBefore |-> TextContent(doc),
                      textAfter  |-> TextContent(after),
                      ctxBefore  |-> TextContent(Get(doc, parent)),
                      ctxAfter   |-> TextContent(Get(after, parent))]
        /\ loadLog' = << >> /\ lastFetched' = << >>
        /\ capture' = [capture EXCEPT ![id] = NoCapture]
        /\ UNCHANGED << served, refreshes, pending, inflight, wrapInfo, edits,
                        nextId >>

\* The refreshHighlights message: clearAllHighlights, then a new load asks
\* the background for the stored list.
RefreshHighlights ==
    /\ UNCHANGED auxVars
    /\ pending = NoPending
    /\ refreshes < MaxRefresh
    /\ refreshes' = refreshes + 1
    /\ \E after \in { clearAllHighlights(doc) } :
        /\ doc' = after
        /\ lastOp' = [NoOp EXCEPT !.op = "clear",
                                  !.textBefore = TextContent(doc),
                                  !.textAfter = TextContent(after)]
    /\ inflight' = inflight + 1
    /\ wrapInfo' = [i \in Ids |-> NoWrap]
    /\ loadLog' = << >> /\ lastFetched' = << >>
    /\ UNCHANGED << served, stored, pending, capture, edits, nextId >>

\* The background answers a getHighlights request with the list it reads from
\* storage at that moment, and loadAndApplyHighlights applies the whole list in
\* one synchronous loop.
LoadResponse ==
    /\ UNCHANGED auxVars
    /\ pending = NoPending
    /\ inflight > 0
    /\ \E res \in { loadAndApplyHighlights(doc, stored) } :
        LET Inserted(id) == { i \in 1 .. Len(res.log) :
                                /\ res.log[i].id = id /\ res.log[i].ok
                                /\ res.log[i].tier # "existing" }
        IN
        /\ doc' = res.doc
        /\ loadLog' = [i \in 1 .. Len(res.log) |->
                         [id       |-> res.log[i].id,
                          ok       |-> res.log[i].ok,
                          tier     |-> res.log[i].tier,
                          mode     |-> res.log[i].mode,
                          changed  |-> res.log[i].changed,
                          markText |-> res.log[i].markText,
                          span     |-> res.log[i].span,
                          hadMark  |-> HasMark(res.log[i].before, res.log[i].id),
                          rel      |-> Relation(capture[res.log[i].id].doc,
                                                res.log[i].before)]]
        /\ wrapInfo' = [id \in Ids |->
                          IF Inserted(id) # {}
                          THEN [text |-> TextContent(doc),
                                mode |-> res.log[CHOOSE i \in Inserted(id) : TRUE].mode]
                          ELSE wrapInfo[id]]
    /\ inflight' = inflight - 1
    /\ lastFetched' = stored
    /\ lastOp' = [NoOp EXCEPT !.op = "load"]
    /\ UNCHANGED << served, refreshes, stored, pending, capture, edits, nextId >>

\* The user opens the page again: a fresh document, and main() starts a load.
\* A save modal left open goes with the old document.
Open(page) ==
    /\ UNCHANGED auxVars
    /\ pending = NoPending
    /\ doc' = page
    /\ served' = page
    /\ refreshes' = 0
    /\ inflight' = 1
    /\ loadLog' = << >> /\ lastFetched' = << >> /\ lastOp' = NoOp
    /\ wrapInfo' = [i \in Ids |-> NoWrap]
    /\ UNCHANGED << stored, pending, capture, nextId >>

\* The page is opened again as it was.
Revisit ==
    /\ Open(served)
    /\ UNCHANGED edits

\* The page is opened again after the site gave it a new first element.  The
\* site edits the page once the user has used up the ids of IdSeq.
RevisitAfterInsert ==
    /\ stored # << >>
    /\ nextId > Len(IdSeq)
    /\ Len(edits) < MaxEdits
    /\ Open(InsertSibling(served))
    /\ edits' = Append(edits, "insert")

\* The page is opened again after the site prepended text to its first text.
RevisitAfterPrepend ==
    /\ stored # << >>
    /\ nextId > Len(IdSeq)
    /\ Len(edits) < MaxEdits
    /\ Open(PrependText(served, EditPrefix))
    /\ edits' = Append(edits, "prepend")

Next ==
    \/ \E r \in Ranges(doc) : HandleSaveHighlight(r)
    \/ ModalSave
    \/ ModalCancel
    \/ \E id \in Ids : AltClickRemove(id)
    \/ RefreshHighlights
    \/ LoadResponse
    \/ Revisit
    \/ RevisitAfterInsert

NextScenario ==
    \/ Next
    \/ RevisitAfterPrepend

Spec == Init /\ [][Next]_vars

\* The scenario of the "Hello world, hello world." page.
SpecScenario == InitScenario /\ [][NextScenario]_vars

\* The page is opened again after the site replaced the first character of
\* its text and put a prefix before it.
RevisitAfterReplace ==
    /\ stored # << >>
    /\ nextId > Len(IdSeq)
    /\ Len(edits) < MaxEdits
    /\ Open(PrependAndReplaceFirst(served, EditPrefix, "J"))
    /\ edits' = Append(edits, "replace")

NextTiers ==
    \/ NextScenario
    \/ RevisitAfterReplace

\* The scenario page under every edit: all four steps of applyHighlight.
SpecTiers == InitScenario /\ [][NextTiers]_vars

-----------------------------------------------------------------------------
(* getXPath on nodes of any kind *)

\* The nodes getXPath can be handed: the elements and text nodes of a tree,
\* and nodes outside it or of another type.  A detached text node has no
\* parentNode; the parent of a fragment's text node is a DocumentFragment.
NodeKinds == { "attached", "comment", "document", "fragmentText", "detachedText" }

NodeRef(kind, path) == [kind |-> kind, path |-> path]

NodesOf(root) ==
    { NodeRef("attached", Paths(root, << >>)[i]) :
        i \in 1 .. Len(Paths(root, << >>)) }
    \cup { NodeRef(k, << >>) : k \in NodeKinds \ { "attached" } }

\* getXPath as a call: whether it threw and what it returned.  A text node
\* is replaced by its parentNode; reading nodeType of a null parentNode is a
\* TypeError; a node that is then no element gives ''.
getXPathOfNode(root, n) ==
    IF n.kind = "attached"
    THEN [threw |-> FALSE, xpath |-> getXPath(root, n.path)]
    ELSE IF n.kind = "detachedText"
    THEN [threw |-> TRUE, xpath |-> EmptyXPath]
    ELSE [threw |-> FALSE, xpath |-> EmptyXPath]

\* Trees getXPath is called on: the pages, and the pages with a marker.
XPathTrees ==
    InitialDocs
    \cup { InsertSibling(d) : d \in InitialDocs }
    \cup UNION { { ExtractAndInsert(d, r, IdSeq[1]) : r \in Ranges(d) } :
                 d \in InitialDocs }

NoXPathResult == [threw |-> FALSE, xpath |-> EmptyXPath]

InitXPath ==
    /\ ContentIdle
    /\ \E t \in XPathTrees :
          xpathCall = [kind |-> "xpath", root |-> t, called |-> FALSE,
                       node |-> NodeRef("document", << >>),
                       result |-> NoXPathResult]
    /\ search = Idle /\ sync = Idle /\ storage = Idle
    /\ urlCall = Idle /\ modal = Idle /\ shares = Idle
    /\ ExtraIdle

\* One call of getXPath.
GetXPathCall(n) ==
    /\ ~xpathCall.called
    /\ xpathCall' = [xpathCall EXCEPT !.called = TRUE, !.node = n,
                                      !.result = getXPathOfNode(xpathCall.root, n)]
    /\ UNCHANGED << contentVars, extraVars, search, sync, storage, urlCall, modal, shares >>

NextXPath == \E n \in NodesOf(xpathCall.root) : GetXPathCall(n)

SpecXPath == InitXPath /\ [][NextXPath]_vars

-----------------------------------------------------------------------------
(* The text search of applyHighlightByContext, statement by statement *)

Letters == { "a", "b" }

\* Sequences over Letters of length at most n.
Texts(n) == UNION { [1 .. k -> Letters] : k \in 0 .. n }

\* Descriptors the search is run for: a text, an offset, and a context that
\* is empty or does not occur in any container text.
SearchPositions ==
    { [id |-> IdSeq[1], text |-> t, xpath |-> EmptyXPath, startOffset |-> o,
       endOffset |-> o + Len(t), beforeContext |-> b, afterContext |-> << >>] :
        t \in Texts(2), o \in 0 .. MaxSearchText, b \in { << >>, << "x" >> } }

InitSearch ==
    /\ ContentIdle
    /\ \E c \in Texts(MaxSearchText), p \in SearchPositions :
          search = [kind |-> "search", containerText |-> c, position |-> p,
                    pc |-> "start", searchStart |-> 0, allMatches |-> << >>,
                    dropped |-> 0, tier |-> "", textStart |-> 0]
    /\ xpathCall = Idle /\ sync = Idle /\ storage = Idle
    /\ urlCall = Idle /\ modal = Idle /\ shares = Idle
    /\ ExtraIdle

SearchUnchanged ==
    UNCHANGED << contentVars, extraVars, xpathCall, sync, storage, urlCall, modal, shares >>

\* The full-context and the partial-context attempt; when both fail the
\* text-only loop is entered.
SearchByPattern ==
    /\ search.kind = "search" /\ search.pc = "start"
    /\ LET p == search.position
           contextIndex == IndexOf(search.containerText,
                              p.beforeContext \o p.text \o p.afterContext)
           before20     == SliceLast(p.beforeContext, PARTIAL_LEN)
           partialIndex == IndexOf(search.containerText,
                              before20 \o p.text
                              \o SliceFirst(p.afterContext, PARTIAL_LEN))
       IN  search' =
             IF contextIndex >= 0
             THEN [search EXCEPT !.pc = "done", !.tier = "full",
                     !.textStart = contextIndex + Len(p.beforeContext)]
             ELSE IF partialIndex >= 0
             THEN [search EXCEPT !.pc = "done", !.tier = "partial",
                     !.textStart = partialIndex + Len(before20)]
             ELSE [search EXCEPT !.pc = "loop"]
    /\ SearchUnchanged

\* One iteration of the while loop: foundIndex is not -1, it is pushed and
\* searchStart becomes foundIndex + 1.
SearchLoopStep ==
    /\ search.kind = "search" /\ search.pc = "loop"
    /\ \E foundIndex \in { IndexOfFrom(search.containerText, search.position.text,
                                       search.searchStart) } :
          /\ foundIndex # -1
          /\ search' =
               IF Len(search.allMatches) < MaxMatches
               THEN [search EXCEPT !.allMatches = Append(@, foundIndex),
                                   !.searchStart = foundIndex + 1]
               ELSE [search EXCEPT !.dropped = (@ + 1) % 2,
                                   !.searchStart = foundIndex + 1]
    /\ SearchUnchanged

\* The loop exits: foundIndex is -1.  An empty allMatches returns false,
\* otherwise reduce picks the start.
SearchLoopExit ==
    /\ search.kind = "search" /\ search.pc = "loop"
    /\ IndexOfFrom(search.containerText, search.position.text,
                   search.searchStart) = -1
    /\ search' =
         IF search.allMatches = << >>
         THEN [search EXCEPT !.pc = "done", !.tier = "none"]
         ELSE [search EXCEPT !.pc = "done", !.tier = "closest",
                 !.textStart = ClosestMatch(Head(search.allMatches),
                                            Tail(search.allMatches),
                                            search.position.startOffset)]
    /\ SearchUnchanged

NextSearch ==
    \/ SearchByPattern
    \/ SearchLoopStep
    \/ SearchLoopExit

SpecSearch == InitSearch /\ [][NextSearch]_vars

\* The function runs on: a statement that can be executed is executed.
SpecSearchFair == SpecSearch /\ WF_vars(NextSearch)

-----------------------------------------------------------------------------
(* StorageService with cloud sync: local store, remote store, merge *)
(* A store maps each id to the version it holds, 0 when it holds none; a    *)
(* version is the number of the write that made it.                        *)

NoVersions == [i \in Ids |-> 0]

\* The merge of getHighlightsForUrl and performFullSync: local entries first,
\* then every cloud entry over them.  No merge when the pull failed or gave
\* nothing.
MergeCloudOverLocal(local, cloud, pullOk) ==
    IF pullOk /\ (\E i \in Ids : cloud[i] # 0)
    THEN [i \in Ids |-> IF cloud[i] # 0 THEN cloud[i] ELSE local[i]]
    ELSE local

\* pushHighlight / updateHighlight of the sync service: an upsert on id,
\* which may fail; the caller ignores the failure.
Upsert(cloud, id, version, pushOk) ==
    IF pushOk THEN [cloud EXCEPT ![id] = version] ELSE cloud

InitSync ==
    /\ ContentIdle
    /\ sync = [kind |-> "sync", local |-> NoVersions, cloud |-> NoVersions,
               writes |-> 0, lastOp |-> "none", merged |-> FALSE,
               prevLocal |-> NoVersions, prevCloud |-> NoVersions]
    /\ xpathCall = Idle /\ search = Idle /\ storage = Idle
    /\ urlCall = Idle /\ modal = Idle /\ shares = Idle
    /\ ExtraIdle

SyncUnchanged ==
    UNCHANGED << contentVars, extraVars, xpathCall, search, storage, urlCall, modal, shares >>

\* What a step of the service leaves in the state besides the two stores.
SyncStep(op, local, cloud, writes, merged) ==
    sync' = [sync EXCEPT !.local = local, !.cloud = cloud, !.writes = writes,
                         !.lastOp = op, !.merged = merged,
                         !.prevLocal = sync.local, !.prevCloud = sync.cloud]

\* saveHighlight: read through getHighlightsForUrl, append, write locally,
\* push.
SyncSaveHighlight(id, pullOk, pushOk) ==
    /\ sync.kind = "sync" /\ sync.writes < MaxWrites
    /\ sync.local[id] = 0 /\ sync.cloud[id] = 0
    /\ LET v      == sync.writes + 1
           merged == MergeCloudOverLocal(sync.local, sync.cloud, pullOk)
       IN  SyncStep("save", [merged EXCEPT ![id] = v],
                    Upsert(sync.cloud, id, v, pushOk), v, FALSE)
    /\ SyncUnchanged

\* updateHighlight: read through getHighlightsForUrl, replace the entry,
\* write locally, push.  Returns without writing when the id is not found.
SyncUpdateHighlight(id, pullOk, pushOk) ==
    /\ sync.kind = "sync" /\ sync.writes < MaxWrites
    /\ LET v      == sync.writes + 1
           merged == MergeCloudOverLocal(sync.local, sync.cloud, pullOk)
       IN  /\ merged[id] # 0
           /\ SyncStep("update", [merged EXCEPT ![id] = v],
                       Upsert(sync.cloud, id, v, pushOk), v, FALSE)
    /\ SyncUnchanged

\* getHighlightsForUrl: the merge, written back to the local store.
SyncGetHighlightsForUrl(pullOk) ==
    /\ sync.kind = "sync"
    /\ SyncStep("get", MergeCloudOverLocal(sync.local, sync.cloud, pullOk),
                sync.cloud, sync.writes,
                pullOk /\ (\E i \in Ids : sync.cloud[i] # 0))
    /\ SyncUnchanged

\* performFullSync: every local highlight is pushed (each push may fail),
\* then everything is pulled and merged over the local store.
SyncPerformFullSync(pushOk, pullOk) ==
    /\ sync.kind = "sync"
    /\ LET pushed == [i \in Ids |->
                        IF sync.local[i] # 0 /\ pushOk[i] THEN sync.local[i]
                        ELSE sync.cloud[i]]
       IN  SyncStep("fullSync",
                    IF pullOk
                    THEN [i \in Ids |-> IF pushed[i] # 0 THEN pushed[i]
                                        ELSE sync.local[i]]
                    ELSE sync.local,
                    pushed, sync.writes, pullOk)
    /\ SyncUnchanged

NextSync ==
    \/ \E id \in Ids, pullOk \in BOOLEAN, pushOk \in BOOLEAN :
          SyncSaveHighlight(id, pullOk, pushOk)
    \/ \E id \in Ids, pullOk \in BOOLEAN, pushOk \in BOOLEAN :
          SyncUpdateHighlight(id, pullOk, pushOk)
    \/ \E pullOk \in BOOLEAN : SyncGetHighlightsForUrl(pullOk)
    \/ \E pushOk \in [Ids -> BOOLEAN], pullOk \in BOOLEAN :
          SyncPerformFullSync(pushOk, pullOk)

SpecSync == InitSync /\ [][NextSync]_vars

-----------------------------------------------------------------------------
(* addHighlight / saveHighlightData: read the list, push, write the list *)
(* Each call is two steps with an await between them: the read of            *)
(* chrome.storage.local.get and the write of chrome.storage.local.set.      *)

\* The calls in flight for one page, and the highlight each one adds.
Callers == {"add1", "save2", "save3"}

Added(c) == IF c = "add1" THEN "n1" ELSE IF c = "save2" THEN "n2" ELSE "n3"

\* What the page's key holds before the calls.
StoredBefore == {<< >>, << "old" >>}

InitStorage ==
    /\ ContentIdle
    /\ \E before \in StoredBefore :
          storage = [kind |-> "storage", list |-> before, before |-> before,
                     pc |-> [c \in Callers |-> "start"],
                     highlights |-> [c \in Callers |-> << >>]]
    /\ xpathCall = Idle /\ search = Idle /\ sync = Idle
    /\ urlCall = Idle /\ modal = Idle /\ shares = Idle
    /\ ExtraIdle

StorageUnchanged ==
    UNCHANGED << contentVars, extraVars, xpathCall, search, sync, urlCall, modal, shares >>

\* const highlights = await loadHighlights(url) / getHighlightsForUrl(url)
StorageRead(c) ==
    /\ storage.kind = "storage" /\ storage.pc[c] = "start"
    /\ storage' = [storage EXCEPT !.pc[c] = "read",
                                  !.highlights[c] = storage.list]
    /\ StorageUnchanged

\* highlights.push(highlight); await chrome.storage.local.set(...)
StorageWrite(c) ==
    /\ storage.kind = "storage" /\ storage.pc[c] = "read"
    /\ storage' = [storage EXCEPT !.pc[c] = "done",
                                  !.list = Append(storage.highlights[c], Added(c))]
    /\ StorageUnchanged

NextStorage ==
    \/ \E c \in Callers : StorageRead(c)
    \/ \E c \in Callers : StorageWrite(c)

SpecStorage == InitStorage /\ [][NextStorage]_vars

-----------------------------------------------------------------------------
(* normalizeUrl, the version that drops tracking parameters *)
(* A URL is what new URL(url) parses it into: origin, pathname (characters), *)
(* the query's key/value pairs in order, and the fragment.  The result      *)
(* string origin + pathname + '?' + 'k=v&...' is kept as its three parts.    *)

\* Part of the set of the source; the keys below meet it through "ref".
TRACKING_PARAMS == {"utm_source", "fbclid", "gclid", "ref"}

QueryKeys == {"a", "b", "Ref"}

QueryValues == {"1", "2"}

\* String.prototype.toLowerCase on the keys used.
ToLowerCase(k) == IF k = "Ref" THEN "ref" ELSE k

\* The order of Array.prototype.sort (UTF-16 code units) on the keys used.
KeyOrder == << "Ref", "a", "b" >>

QueryParams == QueryKeys \X QueryValues

Queries == UNION {[1..n -> QueryParams] : n \in 0..MaxQuery}

Pathnames == {<< "/", "p" >>, << "/", "p", "/" >>}

Urls ==
    [origin : {"https://a.test", "https://b.test"}, pathname : Pathnames,
     query : Queries, hash : {"", "#s"}]

\* searchParams.keys()
KeysOf(query) == [i \in DOMAIN query |-> query[i][1]]

\* searchParams.get(key): the first value of the key.
GetParam(query, key) ==
    LET hits == SelectSeq(query, LAMBDA p : p[1] = key)
    IN  IF hits = << >> THEN "null" ELSE hits[1][2]

\* .sort() of an array of keys, repeated keys kept.
RECURSIVE SortKeysFrom(_, _)
SortKeysFrom(keys, r) ==
    IF r > Len(KeyOrder) THEN << >>
    ELSE SelectSeq(keys, LAMBDA k : k = KeyOrder[r]) \o SortKeysFrom(keys, r + 1)

SortKeys(keys) == SortKeysFrom(keys, 1)

\* pathname.replace(/\/$/, '')
StripTrailingSlash(pathname) ==
    IF pathname # << >> /\ pathname[Len(pathname)] = "/"
    THEN SubSeq(pathname, 1, Len(pathname) - 1)
    ELSE pathname

normalizeUrl(url) ==
    LET sortedKeys == SortKeys(SelectSeq(KeysOf(url.query),
                          LAMBDA k : ToLowerCase(k) \notin TRACKING_PARAMS))
        cleanedParams == [i \in DOMAIN sortedKeys |->
                             << sortedKeys[i], GetParam(url.query, sortedKeys[i]) >>]
    IN  [origin |-> url.origin, pathname |-> StripTrailingSlash(url.pathname),
         query |-> cleanedParams]

NoUrlResult == [origin |-> "", pathname |-> << >>, query |-> << >>]

InitUrl ==
    /\ ContentIdle
    /\ \E u1 \in Urls, u2 \in Urls :
          urlCall = [kind |-> "url", pc |-> "start", url1 |-> u1, url2 |-> u2,
                     key1 |-> NoUrlResult, key2 |-> NoUrlResult]
    /\ xpathCall = Idle /\ search = Idle /\ sync = Idle
    /\ storage = Idle /\ modal = Idle /\ shares = Idle
    /\ ExtraIdle

\* Both URLs are normalized, as getStorageKey does for each of them.
NormalizeBoth ==
    /\ urlCall.kind = "url" /\ urlCall.pc = "start"
    /\ urlCall' = [urlCall EXCEPT !.pc = "done",
                                  !.key1 = normalizeUrl(urlCall.url1),
                                  !.key2 = normalizeUrl(urlCall.url2)]
    /\ UNCHANGED << contentVars, extraVars, xpathCall, search, sync, storage, modal, shares >>

NextUrl == NormalizeBoth

SpecUrl == InitUrl /\ [][NextUrl]_vars

-----------------------------------------------------------------------------
(* normalizeUrl applied to its own result: the url stored with a page's     *)
(* highlights goes through getStorageKey and normalizeUrl again.            *)

\* Paths that end in no, one or several slashes.
SlashPathnames ==
    {<< "/" >>, << "/", "p" >>, << "/", "p", "/" >>, << "/", "p", "/", "/" >>,
     << "/", "p", "/", "/", "/" >>}

SlashUrls ==
    [origin : {"https://a.test", "https://b.test"}, pathname : SlashPathnames,
     query : Queries, hash : {"", "#s"}]

\* new URL(s) of a string that normalizeUrl returned: origin + pathname +
\* '?' + query; an empty path is parsed as "/" and there is no fragment.
ParseNormalized(key) ==
    [origin |-> key.origin,
     pathname |-> IF key.pathname = << >> THEN << "/" >> ELSE key.pathname,
     query |-> key.query, hash |-> ""]

InitUrlTwice ==
    /\ ContentIdle
    /\ \E u \in SlashUrls :
          urlCall = [kind |-> "twice", pc |-> "start", url |-> u,
                     once |-> NoUrlResult, twice |-> NoUrlResult]
    /\ xpathCall = Idle /\ search = Idle /\ sync = Idle
    /\ storage = Idle /\ modal = Idle /\ shares = Idle
    /\ ExtraIdle

\* saveHighlights(url, ...): the page's url is normalized and stored.
NormalizeOnce ==
    /\ urlCall.kind = "twice" /\ urlCall.pc = "start"
    /\ urlCall' = [urlCall EXCEPT !.pc = "once",
                                  !.once = normalizeUrl(urlCall.url)]
    /\ UNCHANGED << contentVars, extraVars, xpathCall, search, sync, storage, modal, shares >>

\* getStorageKey(url) of the stored url: it is normalized again.
NormalizeAgain ==
    /\ urlCall.kind = "twice" /\ urlCall.pc = "once"
    /\ urlCall' = [urlCall EXCEPT
                      !.pc = "twice",
                      !.twice = normalizeUrl(ParseNormalized(urlCall.once))]
    /\ UNCHANGED << contentVars, extraVars, xpathCall, search, sync, storage, modal, shares >>

NextUrlTwice ==
    \/ NormalizeOnce
    \/ NormalizeAgain

SpecUrlTwice == InitUrlTwice /\ [][NextUrlTwice]_vars

-----------------------------------------------------------------------------
(* showHighlightModal: the overlay, its listeners and the two callbacks *)
(* calls[i] is the closure of the i-th invocation: whether its document     *)
(* keydown listener is registered, its selectedColor, and how often its     *)
(* onSave and onCancel have been invoked.  open is the invocation whose     *)
(* overlay is in the document, 0 when there is none.                        *)

Colors == {"yellow", "red"}

NewModalCall == [escape |-> TRUE, selectedColor |-> "yellow", saves |-> 0, cancels |-> 0]

InitModal ==
    /\ ContentIdle
    /\ modal = [kind |-> "modal", calls |-> << >>, open |-> 0]
    /\ xpathCall = Idle /\ search = Idle /\ sync = Idle
    /\ storage = Idle /\ urlCall = Idle /\ shares = Idle
    /\ ExtraIdle

ModalUnchanged ==
    UNCHANGED << contentVars, extraVars, xpathCall, search, sync, storage, urlCall, shares >>

\* removeModal() is open' = 0 in every action below: the overlay found by
\* id is removed; listeners on document are not touched.

\* showHighlightModal: removeModal(), then a new overlay with its listeners.
ShowHighlightModal ==
    /\ modal.kind = "modal" /\ Len(modal.calls) < MaxModals
    /\ modal' = [modal EXCEPT !.calls = Append(modal.calls, NewModalCall),
                              !.open = Len(modal.calls) + 1]
    /\ ModalUnchanged

\* Click on a colour option of the open modal.
ClickColor(c) ==
    /\ modal.kind = "modal" /\ modal.open # 0
    /\ modal.calls[modal.open].selectedColor # c
    /\ modal' = [modal EXCEPT !.calls[modal.open].selectedColor = c]
    /\ ModalUnchanged

\* handleSave, from the Save button of the open modal.
ClickSave ==
    /\ modal.kind = "modal" /\ modal.open # 0
    /\ modal' = [modal EXCEPT !.calls[modal.open].saves = @ + 1, !.open = 0]
    /\ ModalUnchanged

\* handleCancel, from the Cancel button, the close button or a click on the
\* overlay itself of the open modal.
ClickCancel(button) ==
    /\ modal.kind = "modal" /\ modal.open # 0
    /\ button \in {"cancel", "close", "overlay"}
    /\ modal' = [modal EXCEPT !.calls[modal.open].cancels = @ + 1, !.open = 0]
    /\ ModalUnchanged

\* An Escape keydown on document: every registered escapeHandler runs
\* handleCancel and then unregisters itself.
PressEscape ==
    /\ modal.kind = "modal"
    /\ \E i \in DOMAIN modal.calls : modal.calls[i].escape
    /\ modal' = [modal EXCEPT
                   !.calls = [i \in DOMAIN modal.calls |->
                                IF modal.calls[i].escape
                                THEN [modal.calls[i] EXCEPT !.escape = FALSE,
                                                            !.cancels = @ + 1]
                                ELSE modal.calls[i]],
                   !.open = 0]
    /\ ModalUnchanged

NextModal ==
    \/ ShowHighlightModal
    \/ \E c \in Colors : ClickColor(c)
    \/ ClickSave
    \/ \E button \in {"cancel", "close", "overlay"} : ClickCancel(button)
    \/ PressEscape

SpecModal == InitModal /\ [][NextModal]_vars

-----------------------------------------------------------------------------
(* Sharing: the shared_highlights table under its row level security *)
(* shares.rows is the table; a row keeps highlight_id, owner_id,            *)
(* shared_with_email and whether expires_at is NULL ("never"), in the       *)
(* future ("set") or passed ("passed").  share_token is random and unique   *)
(* and is left out.                                                        *)

Users == {"alice", "bob"}

Emails == {"x@mail.test", "y@mail.test"}

\* highlights.user_id of the rows of the highlights table.
HighlightOwner == [h \in Ids |-> IF h = IdSeq[1] THEN "alice" ELSE "bob"]

InitShares ==
    /\ ContentIdle
    /\ shares = [kind |-> "shares", rows |-> {}]
    /\ xpathCall = Idle /\ search = Idle /\ sync = Idle
    /\ storage = Idle /\ urlCall = Idle /\ modal = Idle
    /\ ExtraIdle

SharesUnchanged ==
    UNCHANGED << contentVars, extraVars, xpathCall, search, sync, storage, urlCall, modal >>

\* INSERT policy "Owners can create shares": WITH CHECK (auth.uid() = owner_id).
InsertAllowed(uid, row) == uid = row.owner_id

\* shareHighlight by the signed-in user: the row is inserted with
\* owner_id = user.id unless the policy, the foreign key on highlight_id or
\* UNIQUE(highlight_id, shared_with_email) rejects it.
ShareHighlight(user, highlightId, recipientEmail, expires) ==
    /\ shares.kind = "shares"
    /\ LET row == [highlight_id |-> highlightId, owner_id |-> user,
                   shared_with_email |-> recipientEmail, expires_at |-> expires]
       IN  /\ InsertAllowed(user, row)
           /\ highlightId \in DOMAIN HighlightOwner
           /\ ~\E r \in shares.rows : /\ r.highlight_id = highlightId
                                      /\ r.shared_with_email = recipientEmail
           /\ shares' = [shares EXCEPT !.rows = @ \cup {row}]
    /\ SharesUnchanged

\* revokeShare under the DELETE policy USING (auth.uid() = owner_id).
RevokeShare(user, row) ==
    /\ shares.kind = "shares" /\ row \in shares.rows
    /\ user = row.owner_id
    /\ shares' = [shares EXCEPT !.rows = @ \ {row}]
    /\ SharesUnchanged

\* Time passes expires_at of a row.
ShareExpires(row) ==
    /\ shares.kind = "shares" /\ row \in shares.rows
    /\ row.expires_at = "set"
    /\ shares' = [shares EXCEPT
                    !.rows = (@ \ {row}) \cup {[row EXCEPT !.expires_at = "passed"]}]
    /\ SharesUnchanged

\* SELECT policy on highlights, evaluated for the querying user: the
\* subquery sees the shared_highlights rows its own SELECT policy returns.
CanSelectHighlight(uid, highlightId) ==
    \/ uid = HighlightOwner[highlightId]
    \/ \E r \in shares.rows : /\ uid = r.owner_id
                              /\ r.highlight_id = highlightId
                              /\ r.expires_at # "passed"

NextShares ==
    \/ \E user \in Users, h \in Ids, email \in Emails, expires \in {"never", "set"} :
          ShareHighlight(user, h, email, expires)
    \/ \E user \in Users, row \in shares.rows : RevokeShare(user, row)
    \/ \E row \in shares.rows : ShareExpires(row)

SpecShares == InitShares /\ [][NextShares]_vars

-----------------------------------------------------------------------------
(* StorageService on several devices of one user, with the cloud between   *)
(* devices.local[d] is the list stored under the page's key on device d;   *)
(* devices.cloud is the set of the user's rows of the highlights table.    *)
(* A highlight keeps id, text (standing for every structural field),       *)
(* createdAt and comment (standing for comment and tags).  Each method of  *)
(* the service is one step; its pull, pushes and delete succeed or fail.   *)

Devices == {"d1", "d2"}

Comments == {"undefined", "x"}

\* localToSupabase: comment || null.
localToSupabase(h) ==
    [h EXCEPT !.comment = IF @ \in {"undefined", ""} THEN "null" ELSE @]

\* supabaseToLocal: comment || undefined.
supabaseToLocal(row) ==
    [row EXCEPT !.comment = IF @ \in {"null", ""} THEN "undefined" ELSE @]

IdsOf(list) == {list[i].id : i \in DOMAIN list}

\* The orders in which a select without ORDER BY may return a set of rows.
Enumerations(rows) ==
    {s \in [1..Cardinality(rows) -> rows] :
        \A i, j \in 1..Cardinality(rows) : i # j => s[i] # s[j]}

\* pullHighlightsForUrl: the rows of the page, converted, in some order.
PulledLists(cloud) ==
    {[i \in DOMAIN s |-> supabaseToLocal(s[i])] : s \in Enumerations(cloud)}

\* pullAllHighlights: .order('created_at', { ascending: true }).
PulledAll(cloud) ==
    CHOOSE s \in PulledLists(cloud) :
        \A i, j \in DOMAIN s : i < j => s[i].createdAt < s[j].createdAt

\* The Map of the merge: local entries first, cloud entries set over them;
\* an id keeps the place of its first insertion.
MergedMap(localList, cloudList) ==
    [i \in DOMAIN localList |->
        IF \E j \in DOMAIN cloudList : cloudList[j].id = localList[i].id
        THEN cloudList[CHOOSE j \in DOMAIN cloudList :
                           cloudList[j].id = localList[i].id]
        ELSE localList[i]]
    \o SelectSeq(cloudList, LAMBDA h : h.id \notin IdsOf(localList))

\* getHighlightsForUrl: the list it returns, which is also the list the
\* page's key holds afterwards.
DevGetList(localList, auth, pullOk, cloudList) ==
    IF auth /\ pullOk /\ cloudList # << >>
    THEN MergedMap(localList, cloudList)
    ELSE localList

\* upsert(row, { onConflict: 'id' }) and delete().eq('id', id).
CloudUpsert(cloud, h) == {r \in cloud : r.id # h.id} \cup {localToSupabase(h)}

CloudDelete(cloud, id) == {r \in cloud : r.id # id}

InitDevices ==
    /\ ContentIdle
    /\ devices = [kind |-> "devices",
                  local |-> [d \in Devices |-> << >>],
                  auth |-> [d \in Devices |-> TRUE],
                  cloud |-> {}, saved |-> << >>, removed |-> {}]
    /\ xpathCall = Idle /\ search = Idle /\ sync = Idle /\ storage = Idle
    /\ urlCall = Idle /\ modal = Idle /\ shares = Idle
    /\ realtime = Idle /\ flow = Idle /\ selection = Idle

DevicesUnchanged ==
    UNCHANGED << contentVars, xpathCall, search, sync, storage, urlCall, modal,
                 shares, realtime, flow, selection >>

\* What a call leaves in the state: the device's list, the cloud, and
\* removed: the id that a device removed from its list with the cloud
\* delete succeeding, kept for as long as only getHighlightsForUrl and
\* performFullSync are called afterwards.
DevStep(d, localList, cloud, removed) ==
    devices' = [devices EXCEPT
                  !.local[d] = localList, !.cloud = cloud, !.removed = removed]

\* The user signs in or out on a device.
DevSetAuth(d) ==
    /\ devices.kind = "devices"
    /\ devices' = [devices EXCEPT !.auth[d] = ~@, !.removed = {}]
    /\ DevicesUnchanged

\* saveHighlight of a highlight just captured on device d.
DevSaveHighlight(d, id, pullOk, pushOk) ==
    /\ devices.kind = "devices"
    /\ \A i \in DOMAIN devices.saved : devices.saved[i] # id
    /\ \E cloudList \in PulledLists(devices.cloud) :
         LET h == [id |-> id, text |-> id, createdAt |-> Len(devices.saved) + 1,
                   comment |-> "undefined"]
             highlights == Append(DevGetList(devices.local[d], devices.auth[d],
                                             pullOk, cloudList), h)
         IN  devices' = [devices EXCEPT
                  !.local[d] = highlights,
                  !.cloud = IF devices.auth[d] /\ pushOk
                            THEN CloudUpsert(devices.cloud, h) ELSE @,
                  !.saved = Append(@, id), !.removed = {}]
    /\ DevicesUnchanged

\* updateHighlight(url, id, { comment, tags }).
DevUpdateHighlight(d, id, comment, pullOk, pushOk) ==
    /\ devices.kind = "devices"
    /\ \E cloudList \in PulledLists(devices.cloud) :
         LET highlights == DevGetList(devices.local[d], devices.auth[d],
                                      pullOk, cloudList)
             updated == [i \in DOMAIN highlights |->
                            IF highlights[i].id = id
                            THEN [highlights[i] EXCEPT !.comment = comment]
                            ELSE highlights[i]]
         IN  IF id \notin IdsOf(highlights)
             THEN DevStep(d, highlights, devices.cloud, {})
             ELSE DevStep(d, updated,
                          IF devices.auth[d] /\ pushOk
                          THEN CloudUpsert(devices.cloud,
                                   updated[CHOOSE i \in DOMAIN updated :
                                               updated[i].id = id])
                          ELSE devices.cloud,
                          {})
    /\ DevicesUnchanged

\* removeHighlight(url, id).
DevRemoveHighlight(d, id, pullOk, deleteOk) ==
    /\ devices.kind = "devices"
    /\ \E i \in DOMAIN devices.saved : devices.saved[i] = id
    /\ \E cloudList \in PulledLists(devices.cloud) :
         LET highlights == DevGetList(devices.local[d], devices.auth[d],
                                      pullOk, cloudList)
             deleted == devices.auth[d] /\ deleteOk
         IN  DevStep(d, SelectSeq(highlights, LAMBDA h : h.id # id),
                     IF deleted THEN CloudDelete(devices.cloud, id)
                     ELSE devices.cloud,
                     IF deleted /\ id \in IdsOf(highlights)
                     THEN {id} ELSE {})
    /\ DevicesUnchanged

\* getHighlightsForUrl(url).
DevGetHighlightsForUrl(d, pullOk) ==
    /\ devices.kind = "devices"
    /\ \E cloudList \in PulledLists(devices.cloud) :
         DevStep(d, DevGetList(devices.local[d], devices.auth[d], pullOk, cloudList),
                 devices.cloud, devices.removed)
    /\ DevicesUnchanged

\* The pushes of SyncService.performFullSync: every local highlight is
\* upserted; a push that fails is logged and the loop goes on.
RECURSIVE PushAll(_, _, _)
PushAll(cloud, localList, pushOk) ==
    IF localList = << >> THEN cloud
    ELSE PushAll(IF pushOk[Head(localList).id]
                 THEN CloudUpsert(cloud, Head(localList)) ELSE cloud,
                 Tail(localList), pushOk)

\* StorageService.performFullSync: push everything, pull everything, merge
\* the pulled lists over the local ones.
DevPerformFullSync(d, pushOk, pullOk) ==
    /\ devices.kind = "devices"
    /\ IF ~devices.auth[d]
       THEN DevStep(d, devices.local[d], devices.cloud, devices.removed)
       ELSE LET pushed == PushAll(devices.cloud, devices.local[d], pushOk)
            IN  DevStep(d,
                        IF pullOk /\ pushed # {}
                        THEN MergedMap(devices.local[d], PulledAll(pushed))
                        ELSE devices.local[d],
                        pushed, devices.removed)
    /\ DevicesUnchanged

\* importFromCloud: clearLocalHighlights, pull everything, write what came.
DevImportFromCloud(d, pullOk) ==
    /\ devices.kind = "devices"
    /\ IF ~devices.auth[d]
       THEN DevStep(d, devices.local[d], devices.cloud, {})
       ELSE DevStep(d,
                    IF pullOk THEN PulledAll(devices.cloud) ELSE << >>,
                    devices.cloud, {})
    /\ DevicesUnchanged

NextDevices ==
    \/ \E d \in Devices : DevSetAuth(d)
    \/ \E d \in Devices, id \in Ids, pullOk \in BOOLEAN, pushOk \in BOOLEAN :
          DevSaveHighlight(d, id, pullOk, pushOk)
    \/ \E d \in Devices, id \in Ids, comment \in Comments,
          pullOk \in BOOLEAN, pushOk \in BOOLEAN :
          DevUpdateHighlight(d, id, comment, pullOk, pushOk)
    \/ \E d \in Devices, id \in Ids, pullOk \in BOOLEAN, deleteOk \in BOOLEAN :
          DevRemoveHighlight(d, id, pullOk, deleteOk)
    \/ \E d \in Devices, pullOk \in BOOLEAN : DevGetHighlightsForUrl(d, pullOk)
    \/ \E d \in Devices, pushOk \in [Ids -> BOOLEAN], pullOk \in BOOLEAN :
          DevPerformFullSync(d, pushOk, pullOk)
    \/ \E d \in Devices, pullOk \in BOOLEAN : DevImportFromCloud(d, pullOk)

SpecDevices == InitDevices /\ [][NextDevices]_vars

-----------------------------------------------------------------------------
(* The save flow, handleSaveHighlight, on a selection anywhere in the page *)
(* selection.sel says where the range of window.getSelection() lies: in    *)
(* the body (a range of the tree), inside a text node whose parentNode is  *)
(* a shadow root, or on the document node around the html element, with   *)
(* or without the doctype.  selection.sent is the list of saveHighlightData *)
(* messages sent.  The page may hold a marker of the first id already; the *)
(* flow makes the second.                                                  *)

SelectionPlaces == {"body", "shadowText", "document", "documentWithDoctype"}

\* The node kind of commonAncestorContainer for a selection outside the body.
ContainerKind(place) == IF place = "shadowText" THEN "fragmentText" ELSE "document"

\* createHighlightFromSelection for a selection outside the body: the text
\* is not empty, and getXPath is called on the common ancestor.
DescOutsideBody(root, place, id) ==
    [NoDesc EXCEPT !.id = id, !.text = << "a" >>,
                   !.xpath = getXPathOfNode(root, NodeRef(ContainerKind(place),
                                                          << >>)).xpath,
                   !.endOffset = 1]

\* wrapRangeWithHighlight outside the body.  Within one text node
\* surroundContents succeeds.  Around the html element it succeeds too: the
\* element is extracted and the mark becomes the document's element.  With
\* the doctype in the range both surroundContents and extractContents throw
\* HierarchyRequestError and the function returns false.
WrapsOutsideBody(place) == place # "documentWithDoctype"

\* A save flow that sends the descriptor whatever highlightSelection
\* returned.
SendAlways(success, sent, highlightData) == Append(sent, highlightData)

\* if (success) chrome.runtime.sendMessage({ action: 'saveHighlightData', ... })
SendIfWrapped(success, sent, highlightData) ==
    IF success THEN Append(sent, highlightData) ELSE sent

InitSelection ==
    /\ ContentIdle
    /\ \E d \in XPathTrees, place \in SelectionPlaces :
         \E r \in IF place = "body" THEN Ranges(d) ELSE {NoRange} :
            selection = [kind |-> "save", doc |-> d, pc |-> "selected",
                         sel |-> [place |-> place, range |-> r],
                         desc |-> NoDesc, sent |-> << >>, marked |-> FALSE]
    /\ xpathCall = Idle /\ search = Idle /\ sync = Idle /\ storage = Idle
    /\ urlCall = Idle /\ modal = Idle /\ shares = Idle
    /\ devices = Idle /\ realtime = Idle /\ flow = Idle

SelectionUnchanged ==
    UNCHANGED << contentVars, xpathCall, search, sync, storage, urlCall, modal,
                 shares, devices, realtime, flow >>

\* handleSaveHighlight up to showHighlightModal; it returns early when the
\* selected text is empty after trim.
SelHandleSaveHighlight ==
    /\ selection.kind = "save" /\ selection.pc = "selected"
    /\ LET id   == IdSeq[2]
           desc == IF selection.sel.place = "body"
                   THEN createHighlightFromSelection(selection.doc,
                                                     selection.sel.range, id)
                   ELSE DescOutsideBody(selection.doc, selection.sel.place, id)
       IN  selection' = [selection EXCEPT
                           !.desc = desc,
                           !.pc = IF desc = NoDesc THEN "returned" ELSE "modal"]
    /\ SelectionUnchanged

\* The onSave callback: highlightSelection on the cloned range and, when it
\* succeeds, the saveHighlightData message.
SelModalSave ==
    /\ selection.kind = "save" /\ selection.pc = "modal"
    /\ LET id == selection.desc.id
           w  == IF selection.sel.place = "body"
                 THEN wrapRangeWithHighlight(selection.doc, selection.sel.range, id)
                 ELSE [doc |-> selection.doc,
                       ok |-> WrapsOutsideBody(selection.sel.place), mode |-> ""]
       IN  selection' = [selection EXCEPT
                           !.doc = w.doc,
                           !.marked = IF selection.sel.place = "body"
                                      THEN HasMark(w.doc, id) ELSE w.ok,
                           !.sent = SendIfWrapped(w.ok, selection.sent,
                                                  selection.desc),
                           !.pc = IF w.ok THEN "saved" ELSE "failed"]
    /\ SelectionUnchanged

\* The onCancel callback: the selection is cleared, nothing else.
SelModalCancel ==
    /\ selection.kind = "save" /\ selection.pc = "modal"
    /\ selection' = [selection EXCEPT !.pc = "cancelled"]
    /\ SelectionUnchanged

NextSelection ==
    \/ SelHandleSaveHighlight
    \/ SelModalSave
    \/ SelModalCancel

SpecSelection == InitSelection /\ [][NextSelection]_vars

-----------------------------------------------------------------------------
(* The background script and the realtime channel.  realtime holds the      *)
(* signed-in state the auth service reported last, SyncService.syncChannel  *)
(* (0 for null), the channels that are subscribed, and the calls that wait  *)
(* at an await.  The auth service answers isAuthenticated() and getUser()   *)
(* with the signed-in state of the moment the caller resumes.               *)

MaxAuthEvents == 3

RtCall(op, ch) == [op |-> op, ch |-> ch]

RemoveAt(s, i) == SubSeq(s, 1, i - 1) \o SubSeq(s, i + 1, Len(s))

\* The background script starts: the listeners are registered and
\* initializeServices() is called, which waits for isAuthenticated().
InitRealtime ==
    /\ ContentIdle
    /\ \E isAuth \in BOOLEAN :
         realtime = [kind |-> "realtime", auth |-> isAuth, syncChannel |-> 0,
                     subscribed |-> {}, nextChannel |-> 1,
                     calls |-> << RtCall("initializeServices", 0) >>,
                     installed |-> FALSE, events |-> 0]
    /\ xpathCall = Idle /\ search = Idle /\ sync = Idle /\ storage = Idle
    /\ urlCall = Idle /\ modal = Idle /\ shares = Idle
    /\ devices = Idle /\ flow = Idle /\ selection = Idle

RealtimeUnchanged ==
    UNCHANGED << contentVars, xpathCall, search, sync, storage, urlCall, modal,
                 shares, devices, flow, selection >>

\* chrome.runtime.onInstalled: initializeServices() is called once more.
RtOnInstalled ==
    /\ RealtimeUnchanged
    /\ realtime.kind = "realtime"
    /\ ~realtime.installed
    /\ realtime' = [realtime EXCEPT
          !.installed = TRUE,
          !.calls = Append(@, RtCall("initializeServices", 0))]

\* initializeServices resumes after isAuthenticated(): it calls
\* enableRealtimeSync, which waits for getUser(), or it is done.
RtInitializeServices(i) ==
    /\ RealtimeUnchanged
    /\ realtime.kind = "realtime"
    /\ i \in DOMAIN realtime.calls
    /\ realtime.calls[i].op = "initializeServices"
    /\ realtime' = [realtime EXCEPT
          !.calls = IF realtime.auth
                    THEN [@ EXCEPT ![i] = RtCall("enableRealtimeSync", 0)]
                    ELSE RemoveAt(@, i)]

\* The onAuthStateChange listener runs with a new state.  Signed in: it calls
\* enableRealtimeSync, which waits for getUser().  Signed out: it calls
\* disableRealtimeSync, which is done at once when syncChannel is null and
\* waits for unsubscribe() of the channel otherwise.
RtAuthStateChange(isAuthenticated) ==
    /\ RealtimeUnchanged
    /\ realtime.kind = "realtime"
    /\ realtime.events < MaxAuthEvents
    /\ realtime' = [realtime EXCEPT
          !.auth = isAuthenticated,
          !.events = @ + 1,
          !.calls = IF isAuthenticated
                    THEN Append(@, RtCall("enableRealtimeSync", 0))
                    ELSE IF realtime.syncChannel # 0
                    THEN Append(@, RtCall("disableRealtimeSync",
                                          realtime.syncChannel))
                    ELSE @]

\* enableRealtimeSync resumes after getUser(): no user, or a channel is set:
\* return; otherwise a new channel is subscribed and kept in syncChannel.
RtEnableRealtimeSync(i) ==
    /\ RealtimeUnchanged
    /\ realtime.kind = "realtime"
    /\ i \in DOMAIN realtime.calls
    /\ realtime.calls[i].op = "enableRealtimeSync"
    /\ realtime' =
          IF ~realtime.auth \/ realtime.syncChannel # 0
          THEN [realtime EXCEPT !.calls = RemoveAt(@, i)]
          ELSE [realtime EXCEPT
                   !.calls = RemoveAt(@, i),
                   !.syncChannel = realtime.nextChannel,
                   !.subscribed = @ \cup {realtime.nextChannel},
                   !.nextChannel = @ + 1]

\* disableRealtimeSync resumes after unsubscribe() of the channel it read:
\* this.syncChannel = null.
RtDisableRealtimeSync(i) ==
    /\ RealtimeUnchanged
    /\ realtime.kind = "realtime"
    /\ i \in DOMAIN realtime.calls
    /\ realtime.calls[i].op = "disableRealtimeSync"
    /\ realtime' = [realtime EXCEPT
          !.calls = RemoveAt(@, i),
          !.subscribed = @ \ {realtime.calls[i].ch},
          !.syncChannel = 0]

NextRealtime ==
    \/ RtOnInstalled
    \/ \E isAuthenticated \in BOOLEAN : RtAuthStateChange(isAuthenticated)
    \/ \E i \in 1 .. (MaxAuthEvents + 2) :
          \/ RtInitializeServices(i)
          \/ RtEnableRealtimeSync(i)
          \/ RtDisableRealtimeSync(i)

SpecRealtime == InitRealtime /\ [][NextRealtime]_vars

-----------------------------------------------------------------------------
(* The page, the background and the side panel as message passing.  flow     *)
(* holds the ids stored for the page, the ids that have a marker in the      *)
(* page, the messages the content script sent to the background and the      *)
(* answers to getHighlights on their way back (both in the order sent), the  *)
(* side panel's deleteHighlight call and its refreshHighlights messages on   *)
(* their way to the page.  The page is the one the descriptors were made on, *)
(* so applyHighlight places a marker for every descriptor it is given.       *)

FlowMsg(action, id) == [action |-> action, id |-> id]

PanelIdle == [pc |-> "idle", id |-> ""]

\* main(): the page is opened and loadAndApplyHighlights sends getHighlights.
InitFlow ==
    /\ ContentIdle
    /\ \E before \in SUBSET Ids :
         flow = [kind |-> "flow", stored |-> before, used |-> before,
                 marks |-> {},
                 toBackground |-> << FlowMsg("getHighlights", "") >>,
                 responses |-> << >>, panel |-> PanelIdle, refreshMsgs |-> 0]
    /\ xpathCall = Idle /\ search = Idle /\ sync = Idle /\ storage = Idle
    /\ urlCall = Idle /\ modal = Idle /\ shares = Idle
    /\ devices = Idle /\ realtime = Idle /\ selection = Idle

FlowUnchanged ==
    UNCHANGED << contentVars, xpathCall, search, sync, storage, urlCall, modal,
                 shares, devices, realtime, selection >>

\* The background handles getHighlights: getHighlightsForUrl reads the stored
\* list; it then waits for isAuthenticated() and the answer travels to the
\* page, where it arrives in FlowLoadResponse.
FlowGetHighlights ==
    /\ FlowUnchanged
    /\ flow.kind = "flow"
    /\ flow.toBackground # << >>
    /\ Head(flow.toBackground).action = "getHighlights"
    /\ flow' = [flow EXCEPT !.toBackground = Tail(@),
                            !.responses = Append(@, flow.stored)]

\* loadAndApplyHighlights resumes with the answer: applyHighlight for each
\* descriptor of the list.
FlowLoadResponse ==
    /\ FlowUnchanged
    /\ flow.kind = "flow"
    /\ flow.responses # << >>
    /\ flow' = [flow EXCEPT !.responses = Tail(@),
                            !.marks = @ \cup Head(flow.responses)]

\* The refreshHighlights listener: clearAllHighlights(), then
\* loadAndApplyHighlights() sends getHighlights.
FlowRefreshHighlights ==
    /\ FlowUnchanged
    /\ flow.kind = "flow"
    /\ flow.refreshMsgs > 0
    /\ flow' = [flow EXCEPT !.refreshMsgs = @ - 1,
                            !.marks = {},
                            !.toBackground =
                                Append(@, FlowMsg("getHighlights", ""))]

\* handleSaveHighlight with Save pressed: the marker of a new id is inserted
\* and saveHighlightData is sent.
FlowSave(id) ==
    /\ FlowUnchanged
    /\ flow.kind = "flow"
    /\ id \notin flow.used
    /\ flow' = [flow EXCEPT !.used = @ \cup {id},
                            !.marks = @ \cup {id},
                            !.toBackground =
                                Append(@, FlowMsg("saveHighlightData", id))]

\* The background handles saveHighlightData.
FlowSaveHighlightData ==
    /\ FlowUnchanged
    /\ flow.kind = "flow"
    /\ flow.toBackground # << >>
    /\ Head(flow.toBackground).action = "saveHighlightData"
    /\ flow' = [flow EXCEPT !.toBackground = Tail(@),
                            !.stored = @ \cup {Head(flow.toBackground).id}]

\* Alt+click on a marker: removeHighlightById unwraps it and sends
\* removeHighlightData.
FlowAltClick(id) ==
    /\ FlowUnchanged
    /\ flow.kind = "flow"
    /\ id \in flow.marks
    /\ flow' = [flow EXCEPT !.marks = @ \ {id},
                            !.toBackground =
                                Append(@, FlowMsg("removeHighlightData", id))]

\* The background handles removeHighlightData of the content script.
FlowRemoveHighlightData ==
    /\ FlowUnchanged
    /\ flow.kind = "flow"
    /\ flow.toBackground # << >>
    /\ Head(flow.toBackground).action = "removeHighlightData"
    /\ flow' = [flow EXCEPT !.toBackground = Tail(@),
                            !.stored = @ \ {Head(flow.toBackground).id}]

\* Side panel, deleteHighlight of a listed highlight, confirmed: it sends
\* removeHighlightData and waits for the answer.
FlowPanelDelete(id) ==
    /\ FlowUnchanged
    /\ flow.kind = "flow"
    /\ flow.panel = PanelIdle
    /\ id \in flow.stored
    /\ flow' = [flow EXCEPT !.panel = [pc |-> "sent", id |-> id]]

\* The background handles the side panel's removeHighlightData.
FlowPanelRemoveData ==
    /\ FlowUnchanged
    /\ flow.kind = "flow"
    /\ flow.panel.pc = "sent"
    /\ flow' = [flow EXCEPT !.panel.pc = "removed",
                            !.stored = @ \ {flow.panel.id}]

\* deleteHighlight resumes with the answer and sends refreshHighlights to
\* the tab.
FlowPanelRefresh ==
    /\ FlowUnchanged
    /\ flow.kind = "flow"
    /\ flow.panel.pc = "removed"
    /\ flow' = [flow EXCEPT !.panel = PanelIdle,
                            !.refreshMsgs = @ + 1]

NextFlow ==
    \/ FlowGetHighlights
    \/ FlowLoadResponse
    \/ FlowRefreshHighlights
    \/ \E id \in Ids : FlowSave(id)
    \/ FlowSaveHighlightData
    \/ \E id \in Ids : FlowAltClick(id)
    \/ FlowRemoveHighlightData
    \/ \E id \in Ids : FlowPanelDelete(id)
    \/ FlowPanelRemoveData
    \/ FlowPanelRefresh

SpecFlow == InitFlow /\ [][NextFlow]_vars

-----------------------------------------------------------------------------
(* Capture and resolution on the unchanged page *)

\* Records of the latest load whose descriptor met the very tree it was made on.
SameTreeEntries == { i \in DOMAIN loadLog : loadLog[i].rel = "same" }

\* C1: a descriptor applied to the unchanged document is resolved by the
\* direct xpath+offset step, and the inserted marker covers exactly its text.
C1_DirectOnUnchangedDocument ==
    \A i \in SameTreeEntries :
        /\ loadLog[i].ok
        /\ loadLog[i].tier = "direct"
        /\ loadLog[i].markText = capture[loadLog[i].id].desc.text

\* C2: when the selected text occurs more than once in the page and the
\* document is unchanged, the marker lies on the occurrence the user selected.
C2_SameOccurrenceMarked ==
    \A i \in SameTreeEntries :
        LET c == capture[loadLog[i].id]
        IN  (/\ Len(AllMatches(TextContent(c.doc), c.desc.text)) > 1
             /\ loadLog[i].ok)
            => loadLog[i].span
                 = { c.absStart + k : k \in 0 .. (Len(c.desc.text) - 1) }

\* C3: every descriptor has 0 <= startOffset < endOffset, and its text is the
\* substring [startOffset, endOffset) of the flattened text of the element its
\* xpath decodes to, in the document as it is at capture time.
C3_OffsetsDelimitText ==
    \A id \in Ids :
        LET c == capture[id]
            d == c.desc
            e == getElementByXPath(c.doc, d.xpath)
        IN  c # NoCapture
            => /\ 0 <= d.startOffset
               /\ d.startOffset < d.endOffset
               /\ e # NullPath
               /\ d.text = Substring(TextContent(Get(c.doc, e)),
                                     d.startOffset, d.endOffset)

-----------------------------------------------------------------------------
(* Idempotence, path round trip, shifted containers *)

\* C4: applyHighlight with a descriptor whose marker is already in the
\* document returns true and leaves the document unchanged.
C4_SecondApplyIsNoOp ==
    \A i \in DOMAIN loadLog :
        loadLog[i].hadMark => loadLog[i].ok /\ ~loadLog[i].changed

\* A load met a descriptor whose marker was in the document already.
C4_AppliedTwice ==
    \E i \in DOMAIN loadLog :
        loadLog[i].hadMark /\ loadLog[i].ok /\ loadLog[i].tier = "existing"

\* C5: for every element e attached to the document,
\* getElementByXPath(getXPath(e)) is e itself.
C5_XPathRoundTrip ==
    \A e \in { ElementPaths(doc)[i] : i \in 1 .. Len(ElementPaths(doc)) } :
        getElementByXPath(doc, getXPath(doc, e)) = e

\* The descriptor's path counts same-tag siblings below body, with as first
\* step below body the tag of the element the site inserted.
ShiftedByInsert(id) ==
    LET xp == capture[id].desc.xpath
    IN  /\ xp.kind = "path"
        /\ Len(xp.steps) > 2
        /\ xp.steps[3][1] = capture[id].doc.ch[1].tag

\* C6: when an unrelated sibling inserted before the container shifts its
\* position while its text and the context stay, applyHighlight succeeds, and
\* through the full-context or the partial-context step.
C6_ShiftedContainerResolvedByContext ==
    \A i \in DOMAIN loadLog :
        (loadLog[i].rel = "inserted" /\ ShiftedByInsert(loadLog[i].id))
        => /\ loadLog[i].ok
           /\ loadLog[i].tier \in { "full", "partial" }

-----------------------------------------------------------------------------
(* The "Hello world, hello world." scenario *)

World == << "w", "o", "r", "l", "d" >>

\* Start of the second "world" in the scenario text (19).
SecondWorld == AllMatches(ScenarioText, World)[2]

\* The user selected exactly the second "world" of the scenario page.
SelectedSecondWorld(id) ==
    /\ capture[id].doc = DocScenario
    /\ capture[id].absStart = SecondWorld
    /\ capture[id].desc.text = World
    /\ capture[id].desc.startOffset = SecondWorld

\* C7: selecting the second "world" yields startOffset 19, endOffset 24,
\* beforeContext "Hello world, hello " and text "world"; after 4 characters
\* are prepended the direct step fails and the full-context step marks the
\* second occurrence of "world", not the first.
C7_SecondWorldScenario ==
    \A id \in Ids :
        SelectedSecondWorld(id)
        => /\ capture[id].desc.endOffset = SecondWorld + Len(World)
           /\ capture[id].desc.beforeContext = SubSeq(ScenarioText, 1, SecondWorld)
           /\ \A i \in DOMAIN loadLog :
                (loadLog[i].id = id /\ loadLog[i].rel = "prepended")
                => /\ loadLog[i].ok
                   /\ loadLog[i].tier = "full"
                   /\ loadLog[i].span
                        = { Len(EditPrefix) + SecondWorld + k :
                              k \in 0 .. (Len(World) - 1) }

-----------------------------------------------------------------------------
(* Removal, the load loop, order of a batch *)

\* C8: removing a marker that wrapRangeWithHighlight inserted, in place or
\* through extractContents and insertNode, leaves the flattened text as it
\* was before the marker was inserted.
C8_RemoveRestoresText ==
    (lastOp.op = "remove" /\ lastOp.mode \in { "inplace", "fallback" })
    => /\ lastOp.textAfter = wrapInfo[lastOp.id].text
       /\ lastOp.ctxAfter = lastOp.ctxBefore
       /\ TextContent(doc) = lastOp.textAfter

\* A marker inserted through extractContents and insertNode, spanning more
\* than one node, was removed.
C8_RemovedFallbackMarker ==
    /\ lastOp.op = "remove"
    /\ lastOp.mode = "fallback"
    /\ lastOp.textBefore # << >>
    /\ ~HasMark(doc, lastOp.id)

Reverse(s) == [i \in 1 .. Len(s) |-> s[Len(s) + 1 - i]]

\* Ids applyHighlight resolved in a run of the loop, and the offsets each of
\* them marks in the tree the run leaves.
Resolved(run) == { run.log[i].id : i \in { j \in DOMAIN run.log : run.log[j].ok } }

\* C10: applying a batch of stored descriptors in another order yields the
\* same resolved ids and the same marked span for each of them.
C10_OrderIndependent ==
    Len(stored) > 1
    => LET fwd == ApplyAll(served, stored, << >>)
           bwd == ApplyAll(served, Reverse(stored), << >>)
       IN  /\ Resolved(fwd) = Resolved(bwd)
           /\ \A id \in Resolved(fwd) :
                MarkSpan(fwd.doc, id) = MarkSpan(bwd.doc, id)

-----------------------------------------------------------------------------
(* Failure leaves the tree alone; one marker per id *)

\* C11: whenever applyHighlight returns false the document tree is the tree
\* before the call: nothing was inserted, extracted, moved or removed.
C11_FailureLeavesTreeUnchanged ==
    \A i \in DOMAIN loadLog : ~loadLog[i].ok => ~loadLog[i].changed

\* A load in which applyHighlight returned false for a descriptor that had
\* no marker in the document.
C11_FailedApply ==
    /\ lastOp.op = "load"
    /\ \E i \in DOMAIN loadLog : ~loadLog[i].ok /\ ~loadLog[i].hadMark

\* C12: getXPath never throws; for a text node it answers for the parent
\* element, and for a node that cannot be anchored it returns ''.
C12_GetXPathNeverThrows ==
    (xpathCall.kind = "xpath" /\ xpathCall.called)
    => /\ ~xpathCall.result.threw
       /\ xpathCall.node.kind # "attached"
          => xpathCall.result.xpath = EmptyXPath
       /\ (/\ xpathCall.node.kind = "attached"
           /\ IsText(Get(xpathCall.root, xpathCall.node.path)))
          => xpathCall.result.xpath
               = getXPath(xpathCall.root, Parent(xpathCall.node.path))

-----------------------------------------------------------------------------
(* The text search: termination and the closest occurrence *)

\* C13: the search of applyHighlightByContext ends for every descriptor and
\* every container text, the loop collecting the occurrences included.
C13_SearchTerminates == <>(search.pc = "done")

\* Start offsets of all occurrences of text in s, overlapping ones included.
Occurrences(s, text) ==
    { i \in 0 .. (Len(s) - Len(text)) : SubSeq(s, i + 1, i + Len(text)) = text }

\* C19: when neither context pattern matches, the start chosen is an
\* occurrence of the text at least distance from startOffset, the lower one
\* on equal distance; the search fails only when there is no occurrence.
C19_ClosestOccurrenceLowerOnTie ==
    LET occ == Occurrences(search.containerText, search.position.text)
        o   == search.position.startOffset
    IN  (search.kind = "search" /\ search.pc = "done"
         /\ search.tier \in { "closest", "none" })
        => /\ search.tier = "none" <=> occ = {}
           /\ search.tier = "closest"
              => /\ search.textStart \in occ
                 /\ \A j \in occ :
                      \/ Abs(search.textStart - o) < Abs(j - o)
                      \/ /\ Abs(search.textStart - o) = Abs(j - o)
                         /\ search.textStart <= j
                 /\ ContextMatch(search.containerText, search.position).textStart
                      = search.textStart

\* Two occurrences at the same distance from startOffset, and the search
\* ended on the lower one.
C19_TieResolved ==
    /\ search.kind = "search" /\ search.pc = "done" /\ search.tier = "closest"
    /\ \E j \in Occurrences(search.containerText, search.position.text) :
          /\ j # search.textStart
          /\ Abs(j - search.position.startOffset)
               = Abs(search.textStart - search.position.startOffset)

-----------------------------------------------------------------------------
(* Sync: last write wins *)

\* C14: when the local and the remote store hold different versions of a
\* descriptor, a merge (getHighlightsForUrl or performFullSync) leaves both
\* stores with the version that was written last.
C14_MergeKeepsLastWritten ==
    (sync.kind = "sync" /\ sync.merged)
    => \A i \in Ids :
         (/\ sync.prevLocal[i] # 0 /\ sync.prevCloud[i] # 0
          /\ sync.prevLocal[i] # sync.prevCloud[i])
         => /\ sync.local[i] = Max(sync.prevLocal[i], sync.prevCloud[i])
            /\ sync.cloud[i] = Max(sync.prevLocal[i], sync.prevCloud[i])

-----------------------------------------------------------------------------
(* Storage: concurrent additions *)

Elements(seq) == {seq[i] : i \in DOMAIN seq}

\* C15: once every addHighlight / saveHighlightData call for a page has
\* completed, the stored list holds every highlight stored before and every
\* highlight added.
C15_NoAddedHighlightLost ==
    (storage.kind = "storage" /\ \A c \in Callers : storage.pc[c] = "done")
    => /\ Elements(storage.before) \subseteq Elements(storage.list)
       /\ \A c \in Callers : Added(c) \in Elements(storage.list)

-----------------------------------------------------------------------------
(* normalizeUrl: what the key depends on *)

\* How many times each non-tracking key/value pair occurs in a query.
NonTrackingCount(query) ==
    [p \in QueryParams |->
        IF ToLowerCase(p[1]) \in TRACKING_PARAMS THEN 0
        ELSE Cardinality({i \in DOMAIN query : query[i] = p})]

SameUpToNormalization(u1, u2) ==
    /\ u1.origin = u2.origin
    /\ StripTrailingSlash(u1.pathname) = StripTrailingSlash(u2.pathname)
    /\ NonTrackingCount(u1.query) = NonTrackingCount(u2.query)

\* C16: two URLs normalize to the same string exactly when they have the
\* same origin, the same path up to one trailing slash and the same multiset
\* of non-tracking query parameters.
C16_KeyDependsOnOriginPathParams ==
    (urlCall.kind = "url" /\ urlCall.pc = "done")
    => ((urlCall.key1 = urlCall.key2)
        <=> SameUpToNormalization(urlCall.url1, urlCall.url2))

-----------------------------------------------------------------------------
(* Modal: callbacks of one invocation *)

\* C17: for each showHighlightModal invocation at most one of onSave and
\* onCancel is ever invoked, and at most once.
C17_AtMostOneCallback ==
    modal.kind = "modal"
    => \A i \in DOMAIN modal.calls :
          modal.calls[i].saves + modal.calls[i].cancels <= 1

-----------------------------------------------------------------------------
(* Sharing: only the owner of a highlight shares it *)

\* C18: every share record was created by the owner of its highlight, so no
\* user can read another user's highlight through a share of their own.
C18_SharesOnlyOfOwnHighlights ==
    shares.kind = "shares"
    => /\ \A r \in shares.rows : r.owner_id = HighlightOwner[r.highlight_id]
       /\ \A u \in Users, h \in Ids :
             CanSelectHighlight(u, h)
             => \/ u = HighlightOwner[h]
                \/ \E r \in shares.rows : /\ r.highlight_id = h
                                          /\ r.owner_id = HighlightOwner[h]

-----------------------------------------------------------------------------
(* Markers: one per descriptor id *)

\* C20: the document holds at most one marker element per descriptor id.
C20_AtMostOneMarkerPerId ==
    \A id \in Ids : Len(MarkPaths(doc, id)) <= 1

-----------------------------------------------------------------------------
(* StorageService.updateHighlight: what it leaves alone *)

\* C21: an updateHighlight(url, id, updates) for an id of the local list
\* leaves every descriptor of that list at its place and as it was; only
\* comment and tags of the descriptor with that id may differ.
C21_UpdateChangesOnlyCommentAndTags ==
    [][\A d \in Devices, id \in Ids, comment \in Comments,
          pullOk \in BOOLEAN, pushOk \in BOOLEAN :
          (DevUpdateHighlight(d, id, comment, pullOk, pushOk)
             /\ id \in IdsOf(devices.local[d]))
          => LET before == devices.local[d]
                 after  == devices'.local[d]
             IN  /\ Len(after) >= Len(before)
                 /\ \A i \in DOMAIN before :
                       IF before[i].id = id
                       THEN [after[i] EXCEPT !.comment = before[i].comment]
                            = before[i]
                       ELSE after[i] = before[i]]_vars

-----------------------------------------------------------------------------
(* Save flow: what reaches persistence *)

\* C22: no descriptor with an empty xpath is sent to persistence.
C22_NoEmptyXPathSent ==
    selection.kind = "save"
    => \A i \in DOMAIN selection.sent : selection.sent[i].xpath # EmptyXPath

\* C25: a descriptor is sent to persistence only after Save with its marker
\* in the page; before Save, after Cancel and after a failed wrap nothing
\* was sent and the page holds no marker of the descriptor.
C25_SentOnlyAfterSaveAndWrap ==
    selection.kind = "save"
    => IF selection.pc = "saved"
       THEN selection.sent = << selection.desc >> /\ selection.marked
       ELSE selection.sent = << >> /\ ~selection.marked
            /\ (selection.sel.place = "body"
                  => ~HasMark(selection.doc, IdSeq[2]))

C25_WrapFailedNothingSent ==
    /\ selection.kind = "save" /\ selection.pc = "failed"
    /\ selection.desc # NoDesc /\ selection.sent = << >>

-----------------------------------------------------------------------------
(* Full sync, removal and import across devices *)

\* C23: after a performFullSync that returned success, the ids of the
\* device's local list and the ids of the cloud rows are the same.
C23_FullSyncLeavesStoresEqual ==
    [][\A d \in Devices, pushOk \in [Ids -> BOOLEAN] :
          (DevPerformFullSync(d, pushOk, TRUE) /\ devices.auth[d])
          => IdsOf(devices'.local[d]) = {r.id : r \in devices'.cloud}]_vars

\* C27: an id removed with the cloud delete succeeding is in no cloud row
\* afterwards, and no later getHighlightsForUrl on any device returns it.
C27_RemovedStaysRemoved ==
    [][/\ \A id \in devices'.removed : id \notin {r.id : r \in devices'.cloud}
       /\ \A d \in Devices, pullOk \in BOOLEAN :
             DevGetHighlightsForUrl(d, pullOk)
             => \A id \in devices.removed : id \notin IdsOf(devices'.local[d])]_vars

\* C30: an importFromCloud that returns an error leaves the local list as
\* it was.
C30_FailedImportKeepsLocal ==
    [][\A d \in Devices, pullOk \in BOOLEAN :
          (DevImportFromCloud(d, pullOk) /\ (~devices.auth[d] \/ ~pullOk))
          => devices'.local[d] = devices.local[d]]_vars

-----------------------------------------------------------------------------
(* applyHighlight: the text inside a new marker *)

\* C24: when applyHighlight returns true after inserting a marker, by
\* direct offsets, full context, partial context or closest occurrence, the
\* flattened text inside the marker is the descriptor's text.
C24_NewMarkerHoldsDescriptorText ==
    \A i \in DOMAIN loadLog :
        (loadLog[i].ok /\ loadLog[i].tier # "existing")
        => loadLog[i].markText = lastFetched[i].text

C24_MarkedByPartialContext ==
    \E i \in DOMAIN loadLog :
        /\ loadLog[i].ok /\ loadLog[i].tier = "partial"
        /\ loadLog[i].changed /\ loadLog[i].markText = lastFetched[i].text


-----------------------------------------------------------------------------
(* The realtime channel and the signed-in state *)

\* C29: once every enableRealtimeSync and disableRealtimeSync call started by
\* startup, install and auth-state changes has completed, a realtime channel
\* is subscribed if and only if the most recent auth state is signed in.
C29_ChannelFollowsAuthState ==
    (realtime.kind = "realtime" /\ realtime.calls = << >>)
    => ((realtime.subscribed # {}) <=> realtime.auth)

-----------------------------------------------------------------------------
(* normalizeUrl applied twice *)

\* C28: normalizeUrl(normalizeUrl(u)) = normalizeUrl(u) for every URL u,
\* paths that end in several slashes included.
C28_NormalizeUrlIdempotent ==
    (urlCall.kind = "twice" /\ urlCall.pc = "twice")
    => urlCall.twice = urlCall.once

-----------------------------------------------------------------------------
(* Markers and storage once every message has been handled *)

\* No message, answer or side panel call is on its way.
FlowQuiet ==
    /\ flow.toBackground = << >> /\ flow.responses = << >>
    /\ flow.panel = PanelIdle /\ flow.refreshMsgs = 0

\* C26: once every in-flight message handler and load has completed, every
\* marker in the page belongs to a descriptor that is stored for the page.
C26_MarkersAreStoredWhenQuiet ==
    (flow.kind = "flow" /\ FlowQuiet) => flow.marks \subseteq flow.stored

=============================================================================
